---- MODULE Spec2Model ----
(***************************************************************************)
(* AFT (automated flasher/tester): device pool reservation as driven by    *)
(* main(), the PC device mode-entry state machine, the Edison DFU flasher, *)
(* the PC device remote-mount flashing sequence and the power cutters.     *)
(*                                                                         *)
(* main.py is the only caller of DevicesManager in the sources; the        *)
(* manager itself (aft/devicesmanager.py) is modelled from the design      *)
(* document: a persisted blacklist, per-device lease markers whose         *)
(* validity is tied to the liveness of the holder process, and a           *)
(* process-external lock around read availability -> select -> mark.       *)
(***************************************************************************)
EXTENDS Integers, Sequences, FiniteSets, TLC

\* ---------------------------------------------------------------- bounds
NumProcs == 2
NumDevices == 2

Procs == 1..NumProcs
Devices == 1..NumDevices
NoProc == 0
NoDevice == 0

\* topology (static): devices 1 and 2 are of one model, the others of another
ModelOf(d) == IF d <= 2 THEN "X" ELSE "Y"
Machines == {ModelOf(d) : d \in Devices}

VARIABLES
    pc,         \* position of each invocation of main()
    args,       \* args.machine / args.device of a test run
    startBl,    \* candidates found blacklisted when DevicesManager(args) was built
    view,       \* availability read inside the critical section
    device,     \* device = device_manager.reserve() in main
    lock,       \* holder of the process-external arbitration lock
    leases,     \* persisted per-device lease markers
    blacklist,  \* persisted blacklist: device ids (the reason text is payload)
    lastBl,     \* blacklist left by the last blacklist/unblacklist command

    mpc,            \* position inside PCDevice._enter_mode / _send_PEM_keystrokes
    mode,           \* mode["name"] of the running _enter_mode call
    attempt,        \* iterations of the _enter_mode loop started
    pem_i,          \* iterations of the _send_PEM_keystrokes loop finished
    child,          \* the PEM child process of the last injection
    dev_ip,         \* self.dev_ip (NoIp is None)
    raised,         \* exception that left _enter_mode, if any
    count,          \* steps performed by the running _enter_mode call
    attempts,       \* the attempts argument of the running _send_PEM_keystrokes call
    joins,          \* process.join(timeout) calls of the running _send_PEM_keystrokes call
    verified,       \* what the last self._verify_mode call returned
    ip_at,          \* the loop iteration that assigned self.dev_ip
    retry_attempts, \* self._RETRY_ATTEMPTS of the PCDevice object
    caller,         \* the method that runs the injection or the mode entry ("": _run_tests)
    opc,            \* position of write_image / check_connection around the mode entry
    oerr,           \* exception that left write_image / check_connection
    flash_ip,       \* self.dev_ip that the commands of write_image were sent to
    parent_ip,      \* self.dev_ip of the process that called check_connection

    dpc,            \* position inside EdisonDevice._flash_image / _dfu_call
    dstage,         \* index in DfuStages of the running _dfu_call
    dattempt,       \* attempt, the local counter of _dfu_call
    dexec,          \* execution, the dfu-util process of the last transfer
    dstatus,        \* exit status the last poll() returned (NoStatus is None)
    dsaw,           \* the last _wait_for_device saw the device in DFU mode
    dcount,         \* steps performed by the running _dfu_call
    derr,           \* exception that left _flash_image, if any
    dlog,           \* alt settings in the order their first transfer started
    dbad,           \* first stage whose transfer ended non-zero and was accepted

    fpc,            \* position inside PCDevice.write_image
    fi,             \* index of the next remote command of the flashing sequence
    fhdd,           \* self._uses_hddimg
    flog,           \* the remote commands issued, with their exit statuses

    cpc,            \* position inside _set_channel_connected_state
    ccutter,        \* the cutter object: its family and the version it reported
    cchannel,       \* channel_id
    cconnected,     \* connected
    cresult,        \* result of run_on_self (NoResult is None)
    cslept,         \* seconds the call has blocked after the command was written
    cret,           \* value _set_channel_connected_state returned
    crelay,         \* the relay of the addressed channel is closed (power connected)
    rpc,            \* position inside EdisonDevice._reboot_device
    rlog,           \* commands of the running _reboot_device, with their results
    \* probing of the cutters and the commands to all channels of a type
    ppc,            \* position inside _probe_cutters / _set_con_stat_all_chan_type
    pfamily,        \* the cutter class that probes
    plines,         \* the units that the list command reported
    pidx,           \* number of reported lines the loop has looked at
    pcutters,       \* cutters: the cutter objects kept so far, cls._cutters at the end
    pwarned,        \* lines for which "Skipping unrecognised cutter" was logged
    pret,           \* value _probe_cutters returned
    stype,          \* cutter_type asked of _set_con_stat_all_chan_type
    sconnected,     \* connected asked of _set_con_stat_all_chan_type
    scmds,          \* <<cutter id, channel>> of the commands it issued
    sret,           \* value it returned
    \* one invocation of main(), seen from inside
    npc,            \* position inside main
    nargs,          \* the parsed arguments
    ndevice,        \* device: what reserve() returned
    nlog,           \* the calls main has made, in order, with the device they were made on
    nfailed,        \* the call that raised
    nlogged,        \* logging.error was called in the except clause
    nexit,          \* exit status of the invocation
    nbad,           \* write_image returned although a transfer of the image had failed
    \* one call of tools.misc.local_execute
    xpc,            \* position inside local_execute
    xignore,        \* ignore_return_codes, as the caller gave it
    xwrites,        \* what the command wrote to its stdout and stderr
    xres,           \* how the call ended: the value returned or the error raised
    \* one call of EdisonDevice.write_image on the testing harness
    ipc,            \* position inside write_image
    istep,          \* the step of the injection that comes next
    imounts,        \* mounts that lie on _LOCAL_MOUNT_DIRECTORY
    iown,           \* the mount of this call is in place
    ifiles,         \* what this call wrote below _LOCAL_MOUNT_DIRECTORY
    isynced,        \* sync has run after the injection
    iflash,         \* how the image was when _flash_image was called
    ierr,           \* what ended the call
    \* the recording loop of tools/serialrecorder.py
    qpc,            \* position inside record
    stream,         \* everything serial_stream.read has returned
    read_buffer,    \* read_buffer
    output_file,    \* everything written to the output file
    TERMINATE_FLAG  \* the global that signal_handler is to set

resVars == <<pc, args, startBl, view, device, lock, leases, blacklist, lastBl>>
modeVars == <<mpc, mode, attempt, pem_i, child, dev_ip, raised, count,
              attempts, joins, verified, ip_at,
              retry_attempts, caller, opc, oerr, flash_ip, parent_ip>>
dfuVars == <<dpc, dstage, dattempt, dexec, dstatus, dsaw, dcount, derr, dlog, dbad>>
flashVars == <<fpc, fi, fhdd, flog>>
cutVars == <<cpc, ccutter, cchannel, cconnected, cresult, cslept, cret, crelay, rpc, rlog>>
execVars == <<xpc, xignore, xwrites, xres>>
imageVars == <<ipc, istep, imounts, iown, ifiles, isynced, iflash, ierr>>
recVars == <<qpc, stream, read_buffer, output_file, TERMINATE_FLAG>>
mainVars == <<npc, nargs, ndevice, nlog, nfailed, nlogged, nexit, nbad>>
probeVars == <<ppc, pfamily, plines, pidx, pcutters, pwarned, pret, stype, sconnected, scmds, sret>>
nonPoolVars == <<modeVars, dfuVars, flashVars, cutVars, probeVars, mainVars, execVars, imageVars, recVars>>
nonModeVars == <<resVars, dfuVars, flashVars, cutVars, probeVars, mainVars, execVars, imageVars, recVars>>
nonDfuVars == <<resVars, modeVars, flashVars, cutVars, probeVars, mainVars, execVars, imageVars, recVars>>
nonFlashVars == <<resVars, modeVars, dfuVars, cutVars, probeVars, mainVars, execVars, imageVars, recVars>>
nonCutVars == <<resVars, modeVars, dfuVars, flashVars, probeVars, mainVars, execVars, imageVars, recVars>>
nonProbeVars == <<resVars, modeVars, dfuVars, flashVars, cutVars, mainVars, execVars, imageVars, recVars>>
nonMainVars == <<resVars, modeVars, dfuVars, flashVars, cutVars, probeVars, execVars, imageVars, recVars>>
nonExecVars == <<resVars, modeVars, dfuVars, flashVars, cutVars, probeVars, mainVars, imageVars, recVars>>
nonImageVars == <<resVars, modeVars, dfuVars, flashVars, cutVars, probeVars, mainVars, execVars, recVars>>
nonRecVars == <<resVars, modeVars, dfuVars, flashVars, cutVars, probeVars, mainVars, execVars, imageVars>>
vars == <<resVars, modeVars, dfuVars, flashVars, cutVars, probeVars, mainVars, execVars, imageVars, recVars>>

NoArgs == [machine |-> "", device |-> NoDevice]

\* how an invocation ended: main returned (0 or 1), an exception left main,
\* or the process was killed
Terminal == {"returned", "raised", "crashed"}
Alive(p) == pc[p] \notin ({"idle"} \cup Terminal)

\* ------------------------------------------------- reservation manager
\* a blacklist that is not persisted: a new process finds none
LoadBlacklist_empty == {}

\* the blacklist as read from its persisted form
LoadBlacklist == blacklist

\* the persisted blacklist after blacklist(d) / unblacklist(d)
Blacklisted(d) == LoadBlacklist \cup {d}
Unblacklisted(d) == LoadBlacklist \ {d}

\* a lease is valid only while the process that took it is alive; holder is
\* the live process the marker's holder_process_id names, NoProc when that
\* process is gone
Live(l) == l.holder # NoProc
LiveLeases == {l \in leases : Live(l)}
LeasesOf(p) == {l \in leases : l.holder = p}

Availability(d) ==
    IF d \in LoadBlacklist THEN "BLACKLISTED"
    ELSE IF \E l \in LiveLeases : l.dev = d THEN "RESERVED"
    ELSE "FREE"

Matches(d, a) ==
    /\ ModelOf(d) = a.machine
    /\ (a.device = NoDevice \/ a.device = d)

\* the blacklist as it was when the manager of process p was built
IsBlacklisted_atstart(p, d) == d \in startBl[p]
IsBlacklisted_sticky(p, d) == d \in LoadBlacklist \cup startBl[p]

IsBlacklisted(p, d) == d \in LoadBlacklist

\* any marker counts, whether or not its holder is alive
IsLeased_marker(d) == \E l \in leases : l.dev = d

IsLeased(d) == \E l \in leases : l.dev = d /\ Live(l)

\* candidates offered without regard to the leases of other processes
Eligible_leased(p) ==
    {d \in Devices : Matches(d, args[p]) /\ ~IsBlacklisted(p, d)}

Eligible(p) ==
    {d \in Devices : Matches(d, args[p]) /\ ~IsBlacklisted(p, d) /\ ~IsLeased(d)}

\* no arbitration between processes
CanEnterCritical_nolock(p) == TRUE

CanEnterCritical(p) == lock = NoProc

\* release drops every marker of the pool
ReleaseLeases_all(p) == {}

\* leases that remain after p gives up everything it holds
ReleaseLeases(p) == leases \ LeasesOf(p)

\* markers on d after d is granted to p: stale markers on d are reclaimed
MarkReserved(p, d) ==
    {l \in leases : l.dev # d \/ Live(l)} \cup {[dev |-> d, holder |-> p]}

NoIp == 0
RETRY_ATTEMPTS == 4
NoCount == [power_cycles |-> 0, injections |-> 0, ip_polls |-> 0, verifies |-> 0, warnings |-> 0]

InitMode ==
    /\ mpc = "idle"
    /\ mode = ""
    /\ attempt = 0
    /\ pem_i = 0
    /\ child = "none"
    /\ dev_ip = NoIp
    /\ raised = ""
    /\ count = NoCount
    /\ attempts = 0
    /\ joins = 0
    /\ verified = FALSE
    /\ ip_at = 0
    /\ retry_attempts = RETRY_ATTEMPTS
    /\ caller = ""
    /\ opc = "none"
    /\ oerr = ""
    /\ flash_ip = NoIp
    /\ parent_ip = NoIp

NoStatus == -1
NoDfuCount == [starts |-> 0, kills |-> 0, reboots |-> 0]

InitDfu ==
    /\ dpc = "idle"
    /\ dstage = 0
    /\ dattempt = 0
    /\ dexec = "none"
    /\ dstatus = NoStatus
    /\ dsaw = FALSE
    /\ dcount = NoDfuCount
    /\ derr = ""
    /\ dlog = <<>>
    /\ dbad = 0

InitFlash ==
    /\ fpc = "idle"
    /\ fi = 0
    /\ fhdd = FALSE
    /\ flog = <<>>

NoResult == -1
NoCutter == [family |-> "", version |-> 0]
NoValue == [kind |-> "", value |-> 0]

InitCut ==
    /\ cpc = "idle"
    /\ ccutter = NoCutter
    /\ cchannel = 0
    /\ cconnected = FALSE
    /\ cresult = NoResult
    /\ cslept = 0
    /\ cret = NoValue
    /\ crelay = FALSE
    /\ rpc = "none"
    /\ rlog = <<>>

\* no cutter class has probed
InitProbe ==
    /\ ppc = "idle"
    /\ pfamily = ""
    /\ plines = <<>>
    /\ pidx = 0
    /\ pcutters = <<>>
    /\ pwarned = {}
    /\ pret = FALSE
    /\ stype = ""
    /\ sconnected = FALSE
    /\ scmds = {}
    /\ sret = FALSE

NoExit == -1

NoMainArgs ==
    [options |-> {}, device |-> FALSE, machine |-> FALSE, file_name |-> FALSE,
     record |-> FALSE, noflash |-> FALSE, notest |-> FALSE, nopoweroff |-> FALSE]

\* main has not been entered
InitMain ==
    /\ npc = "idle"
    /\ nargs = NoMainArgs
    /\ ndevice = NoDevice
    /\ nlog = <<>>
    /\ nfailed = ""
    /\ nlogged = FALSE
    /\ nexit = NoExit
    /\ nbad = FALSE

NoIgnore == [given |-> FALSE, codes |-> {}]

NoExec == [kind |-> "", error |-> "", returncode |-> 0, value |-> <<>>]

\* local_execute has not been called
InitExec ==
    /\ xpc = "idle"
    /\ xignore = NoIgnore
    /\ xwrites = <<>>
    /\ xres = NoExec

NoFlash == [started |-> FALSE, mounted |-> FALSE, synced |-> FALSE]

\* write_image has not been called and nothing is mounted on the harness
InitImage ==
    /\ ipc = "idle"
    /\ istep = 0
    /\ imounts = 0
    /\ iown = FALSE
    /\ ifiles = {}
    /\ isynced = FALSE
    /\ iflash = NoFlash
    /\ ierr = ""

\* TERMINATE_FLAG = False at module level; record has not been called
InitRecord ==
    /\ qpc = "idle"
    /\ stream = <<>>
    /\ read_buffer = <<>>
    /\ output_file = <<>>
    /\ TERMINATE_FLAG = FALSE

InitPool ==
    /\ pc = [p \in Procs |-> "idle"]
    /\ args = [p \in Procs |-> NoArgs]
    /\ startBl = [p \in Procs |-> {}]
    /\ view = [p \in Procs |-> {}]
    /\ device = [p \in Procs |-> NoDevice]
    /\ lock = NoProc
    /\ leases = {}
    /\ blacklist = {}
    /\ lastBl = {}

Init ==
    /\ InitPool /\ InitMode /\ InitDfu /\ InitFlash /\ InitCut /\ InitProbe
    /\ InitMain /\ InitExec /\ InitImage /\ InitRecord

CanStart(p) == pc[p] \in ({"idle"} \cup Terminal)

\* main --blacklist [--device d]
BlacklistDevice(p, d) ==
    /\ CanStart(p)
    /\ IF d = NoDevice
       THEN /\ pc' = [pc EXCEPT ![p] = "returned"]
            /\ UNCHANGED <<blacklist, lastBl>>
       ELSE /\ CanEnterCritical(p)
            /\ blacklist' = Blacklisted(d)
            /\ lastBl' = blacklist'
            /\ pc' = [pc EXCEPT ![p] = "returned"]
    /\ UNCHANGED <<args, startBl, view, device, lock, leases>>
    /\ UNCHANGED nonPoolVars

\* main --unblacklist [--device d]
UnblacklistDevice(p, d) ==
    /\ CanStart(p)
    /\ IF d = NoDevice
       THEN /\ pc' = [pc EXCEPT ![p] = "returned"]
            /\ UNCHANGED <<blacklist, lastBl>>
       ELSE /\ CanEnterCritical(p)
            /\ blacklist' = Unblacklisted(d)
            /\ lastBl' = blacklist'
            /\ pc' = [pc EXCEPT ![p] = "returned"]
    /\ UNCHANGED <<args, startBl, view, device, lock, leases>>
    /\ UNCHANGED nonPoolVars

\* main --blacklist_print
BlacklistPrint(p) ==
    /\ CanStart(p)
    /\ pc' = [pc EXCEPT ![p] = "returned"]
    /\ UNCHANGED <<args, startBl, view, device, lock, leases, blacklist, lastBl>>
    /\ UNCHANGED nonPoolVars

\* main machine file_name [--device d]: up to the call of reserve()
StartRun(p, m, d) ==
    /\ CanStart(p)
    /\ IF m = ""
       THEN /\ pc' = [pc EXCEPT ![p] = "returned"]
            /\ UNCHANGED <<args, startBl>>
       ELSE /\ pc' = [pc EXCEPT ![p] = "reserve"]
            /\ args' = [args EXCEPT ![p] = [machine |-> m, device |-> d]]
            /\ startBl' = [startBl EXCEPT ![p] =
                    {x \in LoadBlacklist : Matches(x, [machine |-> m, device |-> d])}]
    /\ UNCHANGED <<view, device, lock, leases, blacklist, lastBl>>
    /\ UNCHANGED nonPoolVars

\* reserve(): enter the critical section and read availability
ReadAvailability(p) ==
    /\ pc[p] = "reserve"
    /\ CanEnterCritical(p)
    /\ lock' = p
    /\ view' = [view EXCEPT ![p] = Eligible(p)]
    /\ pc' = [pc EXCEPT ![p] = "critical"]
    /\ UNCHANGED <<args, startBl, device, leases, blacklist, lastBl>>
    /\ UNCHANGED nonPoolVars

\* reserve(): select a candidate, mark it RESERVED, leave the critical section
\* (nothing reads args.machine, args.device or the manager again after reserve())
Grant(p, d) ==
    /\ pc[p] = "critical"
    /\ d \in view[p]
    /\ leases' = MarkReserved(p, d)
    /\ lock' = IF lock = p THEN NoProc ELSE lock
    /\ view' = [view EXCEPT ![p] = {}]
    /\ pc' = [pc EXCEPT ![p] = "reserved"]
    /\ args' = [args EXCEPT ![p] = NoArgs]
    /\ startBl' = [startBl EXCEPT ![p] = {}]
    /\ device' = [device EXCEPT ![p] = d]
    /\ UNCHANGED <<blacklist, lastBl>>
    /\ UNCHANGED nonPoolVars

\* a failed reserve() clears the markers of the devices it asked for
PoolAfterNoCandidate_reclaim(p) == {l \in leases : ~Matches(l.dev, args[p])}

\* pool state left by a reserve() that found no candidate
PoolAfterNoCandidate(p) == leases

\* the markers of an ended process keep naming it
ProcessEnds_keep(p, status, markers) ==
    /\ pc' = [pc EXCEPT ![p] = status]
    /\ args' = [args EXCEPT ![p] = NoArgs]
    /\ startBl' = [startBl EXCEPT ![p] = {}]
    /\ view' = [view EXCEPT ![p] = {}]
    /\ device' = [device EXCEPT ![p] = NoDevice]
    /\ lock' = IF lock = p THEN NoProc ELSE lock
    /\ leases' = markers

\* the process of invocation p ends: its memory is gone, the lock it held is
\* dropped by the operating system, its lease markers name no live process
ProcessEnds(p, status, markers) ==
    /\ pc' = [pc EXCEPT ![p] = status]
    /\ args' = [args EXCEPT ![p] = NoArgs]
    /\ startBl' = [startBl EXCEPT ![p] = {}]
    /\ view' = [view EXCEPT ![p] = {}]
    /\ device' = [device EXCEPT ![p] = NoDevice]
    /\ lock' = IF lock = p THEN NoProc ELSE lock
    /\ leases' = {IF l.holder = p THEN [l EXCEPT !.holder = NoProc] ELSE l : l \in markers}

\* reserve(): no candidate; block (poll again) or fail, per the policy
NoCandidate(p, fail) ==
    /\ pc[p] = "critical"
    /\ view[p] = {}
    /\ IF fail
       THEN ProcessEnds(p, "raised", PoolAfterNoCandidate(p))
       ELSE /\ lock' = IF lock = p THEN NoProc ELSE lock
            /\ leases' = PoolAfterNoCandidate(p)
            /\ pc' = [pc EXCEPT ![p] = "reserve"]
            /\ UNCHANGED <<args, startBl, view, device>>
    /\ UNCHANGED <<blacklist, lastBl>>
    /\ UNCHANGED nonPoolVars

\* main: flash, test, power off on the reserved device
Work(p, ok) ==
    /\ pc[p] = "reserved"
    /\ IF ok
       THEN /\ pc' = [pc EXCEPT ![p] = "detached"]
            /\ UNCHANGED <<args, startBl, view, device, lock, leases>>
       ELSE ProcessEnds(p, "raised", leases)
    /\ UNCHANGED <<blacklist, lastBl>>
    /\ UNCHANGED nonPoolVars

\* release(device) by the holder
Release(p) ==
    /\ pc[p] = "detached"
    /\ leases' = ReleaseLeases(p)
    /\ pc' = [pc EXCEPT ![p] = "released"]
    /\ UNCHANGED <<args, startBl, view, device, lock, blacklist, lastBl>>
    /\ UNCHANGED nonPoolVars

\* main: return 0
Return0(p) ==
    /\ pc[p] \in {"detached", "released"}
    /\ ProcessEnds(p, "returned", leases)
    /\ UNCHANGED <<blacklist, lastBl>>
    /\ UNCHANGED nonPoolVars

\* the invocation dies without running any of its own code
Crash(p) ==
    /\ Alive(p)
    /\ ProcessEnds(p, "crashed", leases)
    /\ UNCHANGED <<blacklist, lastBl>>
    /\ UNCHANGED nonPoolVars

Next ==
    \/ \E p \in Procs, d \in Devices \cup {NoDevice} : BlacklistDevice(p, d)
    \/ \E p \in Procs, d \in Devices \cup {NoDevice} : UnblacklistDevice(p, d)
    \/ \E p \in Procs : BlacklistPrint(p)
    \/ \E p \in Procs, m \in Machines \cup {""}, d \in Devices \cup {NoDevice} : StartRun(p, m, d)
    \/ \E p \in Procs : ReadAvailability(p)
    \/ \E p \in Procs, d \in Devices : Grant(p, d)
    \/ \E p \in Procs, fail \in BOOLEAN : NoCandidate(p, fail)
    \/ \E p \in Procs, ok \in BOOLEAN : Work(p, ok)
    \/ \E p \in Procs : Release(p)
    \/ \E p \in Procs : Return0(p)
    \/ \E p \in Procs : Crash(p)

Spec == Init /\ [][Next]_vars

\* a running process keeps taking its steps inside reserve(), and a process
\* that keeps polling gets the arbitration lock when it is free again and again
ReserveStep(p) ==
    \/ ReadAvailability(p)
    \/ \E d \in Devices : Grant(p, d)
    \/ \E fail \in BOOLEAN : NoCandidate(p, fail)

Fairness == \A p \in Procs : SF_vars(ReserveStep(p))

SpecLive == Spec /\ Fairness

\* ------------------------------------------- PCDevice mode entry
CHECK_RETRY_ATTEMPTS == 3
PEM_ATTEMPTS == 1
CHECK_ATTEMPTS == 2
NumIps == 2
Ips == 1..NumIps
ModeNames == {"service", "test"}

ErrMode == "AFTDeviceError: Could not set the device in mode"
ErrPem == "AFTDeviceError: Failed to connect to PEM"
ErrChild == "exception raised by pem_main"
ErrConfig == "AFTConfigurationError: Could not connect to PEM"
ErrTimeout == "AFTConfigurationError: Timeout - PEM likely failed to connect"
ErrStillOn == "AFTConfigurationError: Device seems to have failed to shut down"
ErrCommand == "CalledProcessError"

\* no method of the device object is running
ModeIdle ==
    /\ mpc \in {"idle", "returned", "raised", "interrupted", "terminated"}
    /\ opc # "running"

\* the _send_PEM_keystrokes call was made by _enter_mode (mode is its argument)
InEnterMode == mode # ""

\* a loop that gives up one attempt early
AttemptsLeft_short == attempt + 1 < retry_attempts

\* for _ in range(self._RETRY_ATTEMPTS)
AttemptsLeft == attempt < retry_attempts

\* a loop that makes one injection attempt more than asked for
PemAttemptsLeft_more == pem_i <= attempts

\* for i in range(attempts)
PemAttemptsLeft == pem_i < attempts

Bump(f) == [count EXCEPT ![f] = @ + 1]

\* write_image / _run_tests call _enter_mode(mode)
EnterMode(m) ==
    /\ ModeIdle
    /\ caller' = ""
    /\ opc' = "none"
    /\ oerr' = ""
    /\ mpc' = "loop"
    /\ mode' = m
    /\ attempt' = 0
    /\ pem_i' = 0
    /\ attempts' = PEM_ATTEMPTS
    /\ joins' = 0
    /\ child' = "none"
    /\ raised' = ""
    /\ verified' = FALSE
    /\ ip_at' = 0
    /\ count' = NoCount
    /\ UNCHANGED <<dev_ip, retry_attempts, flash_ip, parent_ip, nonModeVars>>

\* check_poweron: self._power_cycle(), then
\* _send_PEM_keystrokes(keystrokes, attempts=2, timeout=60)
CheckPoweron ==
    /\ ModeIdle
    /\ caller' = "check_poweron"
    /\ opc' = "none"
    /\ oerr' = ""
    /\ mpc' = "pem_start"
    /\ mode' = ""
    /\ attempt' = 0
    /\ pem_i' = 0
    /\ attempts' = CHECK_ATTEMPTS
    /\ joins' = 0
    /\ child' = "none"
    /\ raised' = ""
    /\ verified' = FALSE
    /\ ip_at' = 0
    /\ count' = [NoCount EXCEPT !.power_cycles = 1]
    /\ UNCHANGED <<dev_ip, retry_attempts, flash_ip, parent_ip, nonModeVars>>

\* loop head with attempts left: self._power_cycle(), then the call
\* self._send_PEM_keystrokes(mode["sequence"]) with the default attempts
PowerCycle ==
    /\ mpc = "loop"
    /\ AttemptsLeft
    /\ attempt' = attempt + 1
    /\ count' = Bump("power_cycles")
    /\ pem_i' = 0
    /\ joins' = 0
    /\ mpc' = "pem_start"
    /\ UNCHANGED <<mode, attempts, child, dev_ip, raised, verified, ip_at, retry_attempts, caller, opc, oerr, flash_ip, parent_ip, nonModeVars>>

\* loop exhausted: logger.critical, raise AFTDeviceError
GiveUp ==
    /\ mpc = "loop"
    /\ ~AttemptsLeft
    /\ raised' = ErrMode
    /\ mpc' = "raised"
    /\ UNCHANGED <<mode, attempt, pem_i, attempts, joins, child, dev_ip, verified, ip_at, count, retry_attempts, caller, opc, oerr, flash_ip, parent_ip, nonModeVars>>

\* _send_PEM_keystrokes: start the child process of one injection attempt
PemStart ==
    /\ mpc = "pem_start"
    /\ PemAttemptsLeft
    /\ child' = "running"
    /\ count' = Bump("injections")
    /\ mpc' = "pem_join"
    /\ UNCHANGED <<mode, attempt, pem_i, attempts, joins, dev_ip, raised, verified, ip_at, retry_attempts, caller, opc, oerr, flash_ip, parent_ip, nonModeVars>>

\* a timed-out injection counted as a failed attempt of the mode-entry loop
PemFail_continue ==
    /\ mpc = "pem_start"
    /\ ~PemAttemptsLeft
    /\ mpc' = IF InEnterMode THEN "loop" ELSE "returned"
    /\ UNCHANGED <<mode, attempt, pem_i, attempts, joins, child, dev_ip, raised, verified, ip_at, count, retry_attempts, caller, opc, oerr, flash_ip, parent_ip, nonModeVars>>

\* a check_poweroff that takes the timed-out injection for an error
PemFail_raise ==
    /\ mpc = "pem_start"
    /\ ~PemAttemptsLeft
    /\ raised' = IF InEnterMode THEN ErrPem ELSE ErrConfig
    /\ mpc' = "raised"
    /\ UNCHANGED <<mode, attempt, pem_i, attempts, joins, child, dev_ip, verified, ip_at, count, retry_attempts, caller, opc, oerr, flash_ip, parent_ip, nonModeVars>>

\* _send_PEM_keystrokes: every attempt timed out; check_poweron turns the
\* AFTDeviceError into an AFTConfigurationError, check_poweroff returns on
\* it, _enter_mode lets it pass
PemFail ==
    /\ mpc = "pem_start"
    /\ ~PemAttemptsLeft
    /\ IF caller = "check_poweroff"
       THEN /\ raised' = raised
            /\ mpc' = "returned"
       ELSE /\ raised' = IF InEnterMode THEN ErrPem ELSE ErrConfig
            /\ mpc' = "raised"
    /\ UNCHANGED <<mode, attempt, pem_i, attempts, joins, child, dev_ip, verified, ip_at, count, retry_attempts, caller, opc, oerr, flash_ip, parent_ip, nonModeVars>>

\* a join that timed out leaves the child process running
PemJoin_leave(outcome) ==
    /\ mpc = "pem_join"
    /\ joins' = joins + 1
    /\ CASE outcome = "exception" ->
              /\ child' = "exited"
              /\ raised' = ErrChild
              /\ mpc' = "raised"
              /\ UNCHANGED pem_i
         [] outcome = "alive" ->
              /\ child' = "running"
              /\ pem_i' = pem_i + 1
              /\ mpc' = "pem_start"
              /\ UNCHANGED raised
         [] OTHER ->
              /\ child' = "exited"
              /\ UNCHANGED pem_i
              /\ IF caller = "check_poweroff"
                 THEN /\ raised' = ErrStillOn
                      /\ mpc' = "raised"
                 ELSE /\ raised' = raised
                      /\ mpc' = IF InEnterMode THEN "wait_ip" ELSE "returned"
    /\ UNCHANGED <<mode, attempt, attempts, dev_ip, verified, ip_at, count, retry_attempts, caller, opc, oerr, flash_ip, parent_ip, nonModeVars>>

\* process.join(timeout) returns; the child has finished, has reported an
\* exception, or is still alive and is terminated. After a finished
\* injection check_poweroff raises AFTConfigurationError
PemJoin(outcome) ==
    /\ mpc = "pem_join"
    /\ joins' = joins + 1
    /\ CASE outcome = "exception" ->
              /\ child' = "exited"
              /\ raised' = ErrChild
              /\ mpc' = "raised"
              /\ UNCHANGED pem_i
         [] outcome = "alive" ->
              /\ child' = "terminated"
              /\ pem_i' = pem_i + 1
              /\ mpc' = "pem_start"
              /\ UNCHANGED raised
         [] OTHER ->
              /\ child' = "exited"
              /\ UNCHANGED pem_i
              /\ IF caller = "check_poweroff"
                 THEN /\ raised' = ErrStillOn
                      /\ mpc' = "raised"
                 ELSE /\ raised' = raised
                      /\ mpc' = IF InEnterMode THEN "wait_ip" ELSE "returned"
    /\ UNCHANGED <<mode, attempt, attempts, dev_ip, verified, ip_at, count, retry_attempts, caller, opc, oerr, flash_ip, parent_ip, nonModeVars>>

\* an attempt without an address goes on with the address of an earlier one
WaitForResponsiveIp_stale(ip) ==
    /\ mpc = "wait_ip"
    /\ IF ip # NoIp
       THEN /\ dev_ip' = ip
            /\ ip_at' = attempt
            /\ mpc' = "verify"
            /\ count' = Bump("ip_polls")
       ELSE /\ UNCHANGED <<dev_ip, ip_at>>
            /\ mpc' = IF dev_ip # NoIp THEN "verify" ELSE "loop"
            /\ count' = [count EXCEPT !.ip_polls = @ + 1, !.warnings = @ + 1]
    /\ UNCHANGED <<mode, attempt, pem_i, attempts, joins, child, raised, verified, retry_attempts, caller, opc, oerr, flash_ip, parent_ip, nonModeVars>>

\* an attempt without an address leaves self.dev_ip as it was
WaitForResponsiveIp_keep(ip) ==
    /\ mpc = "wait_ip"
    /\ dev_ip' = IF ip # NoIp THEN ip ELSE dev_ip
    /\ ip_at' = attempt
    /\ IF ip # NoIp
       THEN /\ mpc' = "verify"
            /\ count' = Bump("ip_polls")
       ELSE /\ mpc' = "loop"
            /\ count' = [count EXCEPT !.ip_polls = @ + 1, !.warnings = @ + 1]
    /\ UNCHANGED <<mode, attempt, pem_i, attempts, joins, child, raised, verified, retry_attempts, caller, opc, oerr, flash_ip, parent_ip, nonModeVars>>

\* ip_address = self._wait_for_responsive_ip(), which assigns self.dev_ip;
\* without an address: logger.warning and the next iteration
WaitForResponsiveIp(ip) ==
    /\ mpc = "wait_ip"
    /\ dev_ip' = ip
    /\ ip_at' = attempt
    /\ IF ip # NoIp
       THEN /\ mpc' = "verify"
            /\ count' = Bump("ip_polls")
       ELSE /\ mpc' = "loop"
            /\ count' = [count EXCEPT !.ip_polls = @ + 1, !.warnings = @ + 1]
    /\ UNCHANGED <<mode, attempt, pem_i, attempts, joins, child, raised, verified, retry_attempts, caller, opc, oerr, flash_ip, parent_ip, nonModeVars>>

\* a successful verification that does not leave the loop
VerifyMode_retry(ok) ==
    /\ mpc = "verify"
    /\ count' = Bump("verifies")
    /\ verified' = ok
    /\ mpc' = "loop"
    /\ UNCHANGED <<mode, attempt, pem_i, attempts, joins, child, dev_ip, raised, ip_at, retry_attempts, caller, opc, oerr, flash_ip, parent_ip, nonModeVars>>

\* if self._verify_mode(mode["name"]): return
VerifyMode(ok) ==
    /\ mpc = "verify"
    /\ count' = Bump("verifies")
    /\ verified' = ok
    /\ mpc' = IF ok THEN "returned" ELSE "loop"
    /\ UNCHANGED <<mode, attempt, pem_i, attempts, joins, child, dev_ip, raised, ip_at, retry_attempts, caller, opc, oerr, flash_ip, parent_ip, nonModeVars>>

\* check_poweroff: the power-off checks of Device, then
\* _send_PEM_keystrokes(keystrokes, timeout=20) with the default attempts
CheckPoweroff ==
    /\ ModeIdle
    /\ caller' = "check_poweroff"
    /\ opc' = "none"
    /\ oerr' = ""
    /\ mpc' = "pem_start"
    /\ mode' = ""
    /\ attempt' = 0
    /\ pem_i' = 0
    /\ attempts' = PEM_ATTEMPTS
    /\ joins' = 0
    /\ child' = "none"
    /\ raised' = ""
    /\ verified' = FALSE
    /\ ip_at' = 0
    /\ count' = NoCount
    /\ UNCHANGED <<dev_ip, retry_attempts, flash_ip, parent_ip, nonModeVars>>

\* write_image: self._enter_mode(self._service_mode)
WriteImageEnterMode ==
    /\ ModeIdle
    /\ caller' = "write_image"
    /\ opc' = "running"
    /\ oerr' = ""
    /\ flash_ip' = NoIp
    /\ mpc' = "loop"
    /\ mode' = "service"
    /\ attempt' = 0
    /\ pem_i' = 0
    /\ attempts' = PEM_ATTEMPTS
    /\ joins' = 0
    /\ child' = "none"
    /\ raised' = ""
    /\ verified' = FALSE
    /\ ip_at' = 0
    /\ count' = NoCount
    /\ UNCHANGED <<dev_ip, retry_attempts, parent_ip, nonModeVars>>

\* a write_image that flashes whether or not the mode entry returned
WriteImageFlash_blind(ok) ==
    /\ caller = "write_image"
    /\ opc = "running"
    /\ mpc \in {"returned", "raised"}
    /\ flash_ip' = dev_ip
    /\ opc' = IF ok THEN "returned" ELSE "raised"
    /\ oerr' = IF ok THEN "" ELSE ErrCommand
    /\ UNCHANGED <<mpc, mode, attempt, pem_i, child, dev_ip, raised, count, attempts,
                   joins, verified, ip_at, retry_attempts, caller, parent_ip, nonModeVars>>

\* write_image after _enter_mode returned: _flash_image and
\* _install_tester_public_key send their commands to self.dev_ip; a command
\* that fails raises
WriteImageFlash(ok) ==
    /\ caller = "write_image"
    /\ opc = "running"
    /\ mpc = "returned"
    /\ flash_ip' = dev_ip
    /\ opc' = IF ok THEN "returned" ELSE "raised"
    /\ oerr' = IF ok THEN "" ELSE ErrCommand
    /\ UNCHANGED <<mpc, mode, attempt, pem_i, child, dev_ip, raised, count, attempts,
                   joins, verified, ip_at, retry_attempts, caller, parent_ip, nonModeVars>>

\* write_image: the exception of _enter_mode leaves write_image
WriteImageRaise ==
    /\ caller = "write_image"
    /\ opc = "running"
    /\ mpc = "raised"
    /\ opc' = "raised"
    /\ oerr' = raised
    /\ UNCHANGED <<mpc, mode, attempt, pem_i, child, dev_ip, raised, count, attempts,
                   joins, verified, ip_at, retry_attempts, caller, flash_ip, parent_ip,
                   nonModeVars>>

\* check_connection: self._RETRY_ATTEMPTS = 3, then a child process is
\* started that runs invoker: self._enter_mode(self._service_mode)
CheckConnection ==
    /\ ModeIdle
    /\ retry_attempts' = CHECK_RETRY_ATTEMPTS
    /\ caller' = "check_connection"
    /\ opc' = "running"
    /\ oerr' = ""
    /\ parent_ip' = dev_ip
    /\ mpc' = "loop"
    /\ mode' = "service"
    /\ attempt' = 0
    /\ pem_i' = 0
    /\ attempts' = PEM_ATTEMPTS
    /\ joins' = 0
    /\ child' = "none"
    /\ raised' = ""
    /\ verified' = FALSE
    /\ ip_at' = 0
    /\ count' = NoCount
    /\ UNCHANGED <<dev_ip, flash_ip, nonModeVars>>

\* the child of check_connection has not ended
ChildRuns ==
    /\ caller = "check_connection"
    /\ opc = "running"
    /\ mpc \notin {"returned", "raised", "interrupted", "terminated"}

\* invoker: except KeyboardInterrupt: pass. The child is interrupted inside
\* _enter_mode and ends without an entry in the queue; at its exit it
\* terminates its own daemonic PEM child
ChildInterrupt ==
    /\ ChildRuns
    /\ mpc' = "interrupted"
    /\ child' = IF child = "running" THEN "terminated" ELSE child
    /\ UNCHANGED <<mode, attempt, pem_i, dev_ip, raised, count, attempts, joins,
                   verified, ip_at, retry_attempts, caller, opc, oerr, flash_ip, parent_ip,
                   nonModeVars>>

\* a check_connection that returns whatever the child put in the queue
CheckConnectionJoin_quiet ==
    /\ caller = "check_connection"
    /\ opc = "running"
    /\ mpc \in {"returned", "raised", "interrupted"}
    /\ opc' = "returned"
    /\ oerr' = ""
    /\ dev_ip' = parent_ip
    /\ UNCHANGED <<mpc, mode, attempt, pem_i, child, raised, count, attempts, joins,
                   verified, ip_at, retry_attempts, caller, flash_ip, parent_ip, nonModeVars>>

\* a check_connection that puts the default budget back when it ends
CheckConnectionJoin_restore ==
    /\ caller = "check_connection"
    /\ opc = "running"
    /\ mpc \in {"returned", "raised", "interrupted"}
    /\ opc' = IF mpc = "raised" THEN "raised" ELSE "returned"
    /\ oerr' = IF mpc = "raised" THEN raised ELSE ""
    /\ dev_ip' = parent_ip
    /\ retry_attempts' = RETRY_ATTEMPTS
    /\ UNCHANGED <<mpc, mode, attempt, pem_i, child, raised, count, attempts, joins,
                   verified, ip_at, caller, flash_ip, parent_ip, nonModeVars>>

\* process.join(1.5 * _RETRY_ATTEMPTS * _BOOT_TIMEOUT) returns and the child
\* is alive: process.terminate(), raise AFTConfigurationError. What the
\* child assigned to self.dev_ip is lost with the child in every case
CheckConnectionTimeout ==
    /\ ChildRuns
    /\ mpc' = "terminated"
    /\ opc' = "raised"
    /\ oerr' = ErrTimeout
    /\ dev_ip' = parent_ip
    /\ UNCHANGED <<mode, attempt, pem_i, child, raised, count, attempts, joins, verified,
                   ip_at, retry_attempts, caller, flash_ip, parent_ip, nonModeVars>>

\* the child ended before the time limit: the exception in the queue is
\* raised, if there is one; else logger.info and return
CheckConnectionJoin ==
    /\ caller = "check_connection"
    /\ opc = "running"
    /\ mpc \in {"returned", "raised", "interrupted"}
    /\ opc' = IF mpc = "raised" THEN "raised" ELSE "returned"
    /\ oerr' = IF mpc = "raised" THEN raised ELSE ""
    /\ dev_ip' = parent_ip
    /\ UNCHANGED <<mpc, mode, attempt, pem_i, child, raised, count, attempts, joins,
                   verified, ip_at, retry_attempts, caller, flash_ip, parent_ip, nonModeVars>>

NextMode ==
    \/ \E m \in ModeNames : EnterMode(m)
    \/ CheckPoweron
    \/ PowerCycle
    \/ GiveUp
    \/ PemStart
    \/ PemFail
    \/ \E outcome \in {"finished", "exception", "alive"} : PemJoin(outcome)
    \/ \E ip \in Ips \cup {NoIp} : WaitForResponsiveIp(ip)
    \/ \E ok \in BOOLEAN : VerifyMode(ok)
    \/ CheckPoweroff
    \/ WriteImageEnterMode
    \/ \E ok \in BOOLEAN : WriteImageFlash(ok)
    \/ WriteImageRaise
    \/ CheckConnection
    \/ ChildInterrupt
    \/ CheckConnectionTimeout
    \/ CheckConnectionJoin

SpecMode == Init /\ [][NextMode]_vars

\* ------------------------------------------- EdisonDevice DFU flashing
DFU_ATTEMPTS == 4

\* the alt settings in the order of the _dfu_call calls of _flash_image
DfuStages ==
    <<"ifwi00", "ifwib00", "ifwi01", "ifwib01", "ifwi02", "ifwib02",
      "ifwi03", "ifwib03", "ifwi04", "ifwib04", "ifwi05", "ifwib05",
      "ifwi06", "ifwib06",
      "u-boot0", "u-boot-env0", "u-boot-env1",
      "boot", "update", "rootfs">>
NumStages == Len(DfuStages)

\* the _dfu_call that is followed by a bare self._wait_for_device()
StageBeforeWait == CHOOSE i \in 1..NumStages : DfuStages[i] = "u-boot-env1"

ErrNoDfu == "IOError: Could not find the device in DFU-mode in 15 seconds."
ErrFlash == "IOError: Flashing failed 4 times. Raising error (aborting)."
\* a loop that makes one attempt more
DfuAttemptsLeft_more == dattempt <= DFU_ATTEMPTS

\* while attempt < attempts
DfuAttemptsLeft == dattempt < DFU_ATTEMPTS

\* entry of _dfu_call for stage s: attempt = 0
DfuCall(s) ==
    /\ dstage' = s
    /\ dattempt' = 0
    /\ dcount' = NoDfuCount
    /\ dsaw' = FALSE
    /\ dpc' = "loop"

\* write_image: return self._flash_image(); _flash_image reboots the device
\* and makes its first _dfu_call
FlashImage ==
    /\ dpc \in {"idle", "done", "raised"}
    /\ DfuCall(1)
    /\ dexec' = "none"
    /\ dstatus' = NoStatus
    /\ derr' = ""
    /\ dlog' = <<>>
    /\ dbad' = 0
    /\ UNCHANGED nonDfuVars

\* loop head of _dfu_call with attempts left
DfuAttempt ==
    /\ dpc = "loop"
    /\ DfuAttemptsLeft
    /\ dpc' = "wait"
    /\ dsaw' = FALSE
    /\ UNCHANGED <<dstage, dattempt, dexec, dstatus, dcount, derr, dlog, dbad, nonDfuVars>>

\* loop of _dfu_call exhausted: flashing_log_file.close(), raise IOError
DfuGiveUp ==
    /\ dpc = "loop"
    /\ ~DfuAttemptsLeft
    /\ derr' = ErrFlash
    /\ dpc' = "raised"
    /\ UNCHANGED <<dstage, dattempt, dexec, dstatus, dsaw, dcount, dlog, dbad, nonDfuVars>>

\* a transfer is started although the device was not seen in DFU mode
WaitForDevice_blind(found) ==
    /\ dpc \in {"wait", "wait302"}
    /\ dsaw' = found
    /\ dpc' = IF dpc = "wait" THEN "popen" ELSE "between302"
    /\ UNCHANGED <<dstage, dattempt, dexec, dstatus, dcount, derr, dlog, dbad, nonDfuVars>>

\* _wait_for_device: dfu-util -l lists the device on its USB path within
\* 15 seconds, or IOError is raised
WaitForDevice(found) ==
    /\ dpc \in {"wait", "wait302"}
    /\ dsaw' = found
    /\ IF found
       THEN /\ dpc' = IF dpc = "wait" THEN "popen" ELSE "between302"
            /\ UNCHANGED derr
       ELSE /\ dpc' = "raised"
            /\ derr' = ErrNoDfu
    /\ UNCHANGED <<dstage, dattempt, dexec, dstatus, dcount, dlog, dbad, nonDfuVars>>

\* execution = subprocess32.Popen(["dfu-util", ..., "--alt", alt, "-D", source])
DfuPopen ==
    /\ dpc = "popen"
    /\ dexec' = "running"
    /\ dstatus' = NoStatus
    /\ dcount' = [dcount EXCEPT !.starts = @ + 1]
    /\ dlog' = IF dattempt = 0 THEN Append(dlog, DfuStages[dstage]) ELSE dlog
    /\ dpc' = "transfer"
    /\ UNCHANGED <<dstage, dattempt, dsaw, derr, dbad, nonDfuVars>>

\* a timed-out transfer that is retried without a reboot of the device
DfuPoll_noreboot(status) ==
    /\ dpc = "transfer"
    /\ IF status # NoStatus
       THEN /\ dexec' = "exited"
            /\ dstatus' = status
            /\ dbad' = IF status # 0 /\ dbad = 0 THEN dstage ELSE dbad
            /\ dpc' = "between"
            /\ UNCHANGED <<dattempt, dcount>>
       ELSE /\ dexec' = "killed"
            /\ dattempt' = dattempt + 1
            /\ dcount' = [dcount EXCEPT !.kills = @ + 1]
            /\ dpc' = "loop"
            /\ UNCHANGED <<dstatus, dbad>>
    /\ UNCHANGED <<dstage, dsaw, derr, dlog, nonDfuVars>>

\* a _dfu_call that does not reboot the device after the timeout of its
\* last attempt
DfuPoll_lastquiet(status) ==
    /\ dpc = "transfer"
    /\ IF status # NoStatus
       THEN /\ dexec' = "exited"
            /\ dstatus' = status
            /\ dbad' = IF status # 0 /\ dbad = 0 THEN dstage ELSE dbad
            /\ dpc' = "between"
            /\ UNCHANGED <<dattempt, dcount>>
       ELSE /\ dexec' = "killed"
            /\ dattempt' = dattempt + 1
            /\ dcount' = [dcount EXCEPT !.kills = @ + 1,
                                        !.reboots = IF dattempt + 1 < DFU_ATTEMPTS THEN @ + 1 ELSE @]
            /\ dpc' = "loop"
            /\ UNCHANGED <<dstatus, dbad>>
    /\ UNCHANGED <<dstage, dsaw, derr, dlog, nonDfuVars>>

\* the polling loop of _dfu_call: execution.poll() returns an exit status
\* within the timeout and _dfu_call returns, whatever the status; or the
\* timeout passes: execution.kill(), attempt += 1, self._reboot_device()
\* (kill() of the own child fails with ESRCH at most, which is passed over)
DfuPoll(status) ==
    /\ dpc = "transfer"
    /\ IF status # NoStatus
       THEN /\ dexec' = "exited"
            /\ dstatus' = status
            /\ dbad' = IF status # 0 /\ dbad = 0 THEN dstage ELSE dbad
            /\ dpc' = "between"
            /\ UNCHANGED <<dattempt, dcount>>
       ELSE /\ dexec' = "killed"
            /\ dattempt' = dattempt + 1
            /\ dcount' = [dcount EXCEPT !.kills = @ + 1, !.reboots = @ + 1]
            /\ dpc' = "loop"
            /\ UNCHANGED <<dstatus, dbad>>
    /\ UNCHANGED <<dstage, dsaw, derr, dlog, nonDfuVars>>

\* _flash_image after a _dfu_call has returned: the next _dfu_call, the bare
\* _wait_for_device() after u-boot-env1, or "Flashing complete", return True
NextStage ==
    /\ \/ dpc = "between" /\ dstage # StageBeforeWait
       \/ dpc = "between302"
    /\ IF dstage < NumStages
       THEN DfuCall(dstage + 1)
       ELSE /\ dpc' = "done"
            /\ UNCHANGED <<dstage, dattempt, dcount, dsaw>>
    /\ UNCHANGED <<dexec, dstatus, derr, dlog, dbad, nonDfuVars>>

\* self._wait_for_device() after the u-boot stages
WaitAfterUboot ==
    /\ dpc = "between"
    /\ dstage = StageBeforeWait
    /\ dpc' = "wait302"
    /\ UNCHANGED <<dstage, dattempt, dexec, dstatus, dsaw, dcount, derr, dlog, dbad, nonDfuVars>>

NextDfu ==
    \/ FlashImage
    \/ DfuAttempt
    \/ DfuGiveUp
    \/ \E found \in BOOLEAN : WaitForDevice(found)
    \/ DfuPopen
    \/ \E status \in {NoStatus, 0, 1} : DfuPoll(status)
    \/ NextStage
    \/ WaitAfterUboot

SpecDfu == Init /\ [][NextDfu]_vars

\* ------------------------------------------- PCDevice remote-mount flashing
\* the remote commands of _flash_image, in program order
FlashImageCommands ==
    <<"mount img_nfs", "bmaptool copy", "partprobe", "sync",
      "udevadm trigger", "udevadm settle", "udevadm control -S">>

\* _mount_single_layer / _mount_two_layers
MountCommands(hddimg) ==
    IF hddimg
    THEN <<"modprobe vfat", "mount super_root", "mount rootfs">>
    ELSE <<"mount root_partition">>

\* the remote commands of _install_tester_public_key after the mount
KeyCommands(hddimg) ==
    <<"cat etc/passwd", "mkdir .ssh", "chmod 700 .ssh",
      "cat authorized_keys >>", "chmod 600 authorized_keys">>
    \o (IF hddimg THEN <<>> ELSE <<"setfattr security.ima">>)
    \o <<"sync", "umount root">>

\* the root filesystem is mounted and the key installed before the device
\* nodes have settled
FlashCommands_early(hddimg) ==
    SubSeq(FlashImageCommands, 1, 2) \o MountCommands(hddimg) \o KeyCommands(hddimg)
        \o SubSeq(FlashImageCommands, 3, Len(FlashImageCommands))

\* write_image: self._flash_image(...), self._install_tester_public_key(...)
FlashCommands(hddimg) ==
    FlashImageCommands \o MountCommands(hddimg) \o KeyCommands(hddimg)

\* every status of every command is passed over
IgnoredCodes_any(cmd) == {1, 32}

\* the ignore_return_codes argument of the remote_execute calls
IgnoredCodes(cmd) ==
    CASE cmd = "mount img_nfs" -> {32}
      [] cmd = "mkdir .ssh" -> {1}
      [] OTHER -> {}

\* exit statuses a remote command is observed with
Statuses == {0, 1, 32}

\* ssh.remote_execute raises unless the status is 0 or in ignore_return_codes
Raises(cmd, status) == status # 0 /\ status \notin IgnoredCodes(cmd)

\* write_image after _enter_mode(self._service_mode) has returned:
\* self._uses_hddimg is set from the extension of the image file, and the
\* bmaptool copy runs with or without --nobmap
WriteImage(hddimg) ==
    /\ fpc \in {"idle", "done", "raised"}
    /\ fpc' = "running"
    /\ fhdd' = hddimg
    /\ fi' = 1
    /\ flog' = <<>>
    /\ UNCHANGED nonFlashVars

\* the next ssh.remote_execute call of the sequence returns or raises
RemoteExecute(status) ==
    /\ fpc = "running"
    /\ fi <= Len(FlashCommands(fhdd))
    /\ LET cmd == FlashCommands(fhdd)[fi]
       IN /\ flog' = Append(flog, [cmd |-> cmd, status |-> status])
          /\ IF Raises(cmd, status)
             THEN fpc' = "raised" /\ fi' = fi
             ELSE fpc' = "running" /\ fi' = fi + 1
    /\ UNCHANGED <<fhdd, nonFlashVars>>

\* _install_tester_public_key and write_image return
FlashDone ==
    /\ fpc = "running"
    /\ fi > Len(FlashCommands(fhdd))
    /\ fpc' = "done"
    /\ UNCHANGED <<fi, fhdd, flog, nonFlashVars>>

NextFlash ==
    \/ \E hddimg \in BOOLEAN : WriteImage(hddimg)
    \/ \E status \in Statuses : RemoteExecute(status)
    \/ FlashDone

SpecFlash == Init /\ [][NextFlash]_vars

\* ------------------------------------------- power cutters
\* ClewareCutter.init: the table of cutter types, by reported version
ClewareTypes ==
    {[version |-> 5, cutter_type |-> "USB", channels |-> 1,
      opening_transient |-> 1, closing_transient |-> 3],
     [version |-> 23, cutter_type |-> "MainsSingle", channels |-> 1,
      opening_transient |-> 3, closing_transient |-> 5],
     [version |-> 29, cutter_type |-> "MainsQuad", channels |-> 4,
      opening_transient |-> 3, closing_transient |-> 5],
     [version |-> 51, cutter_type |-> "MainsSingleNew", channels |-> 4,
      opening_transient |-> 3, closing_transient |-> 5],
     [version |-> 512, cutter_type |-> "MainsQuad", channels |-> 4,
      opening_transient |-> 3, closing_transient |-> 5]}

\* Usbrelay.init: the one cutter type
UsbrelayTypes == {[version |-> 1, cutter_type |-> "USB", channels |-> 2]}

\* tools/cutter_on_off.py: time.sleep(1) after the write to the serial port
USBRELAY_TOOL_SLEEP == 1

\* _get_type: the cutter type of a cutter object
TypeOf(cutter) ==
    CHOOSE t \in (IF cutter.family = "cleware" THEN ClewareTypes ELSE UsbrelayTypes) :
        t.version = cutter.version

\* the cutter objects that probing can create, with a recognised type
Cutters ==
    {[family |-> "cleware", version |-> t.version] : t \in ClewareTypes}
        \cup {[family |-> "usbrelay", version |-> t.version] : t \in UsbrelayTypes}

\* the channels of a cutter: range(cutter_type.channels)
ChannelsOf(cutter) == 0..(TypeOf(cutter).channels - 1)

\* exit statuses of the cutter tool; the Cleware runner may also give None
Results(cutter) ==
    IF cutter.family = "cleware" THEN {NoResult, 0, 1} ELSE {0, 1}

\* the settle time of the cutter type for the direction
Transient(cutter, connected) ==
    IF cutter.family = "cleware"
    THEN (IF connected THEN TypeOf(cutter).closing_transient
                       ELSE TypeOf(cutter).opening_transient)
    ELSE 0

\* time.sleep of _set_channel_connected_state after run_on_self has returned:
\* ClewareCutter sleeps when the result is not None and its returncode is
\* not 0; Usbrelay does not sleep, its tool has slept before it returned
SleepAfter(cutter, connected, result) ==
    IF cutter.family = "cleware"
    THEN (IF result # NoResult /\ result # 0 THEN Transient(cutter, connected) ELSE 0)
    ELSE USBRELAY_TOOL_SLEEP

\* Usbrelay reports success whatever the status of its tool
ReturnValue_true(cutter, result) ==
    IF cutter.family = "cleware"
    THEN (IF result = NoResult THEN [kind |-> "None", value |-> 0]
                               ELSE [kind |-> "result", value |-> result])
    ELSE [kind |-> "bool", value |-> 1]

\* what _set_channel_connected_state returns: ClewareCutter the result of
\* run_on_self (with its returncode, or None), Usbrelay False for a
\* non-zero status of its tool and True for zero
ReturnValue(cutter, result) ==
    IF cutter.family = "cleware"
    THEN (IF result = NoResult THEN [kind |-> "None", value |-> 0]
                               ELSE [kind |-> "result", value |-> result])
    ELSE [kind |-> "bool", value |-> IF result # 0 THEN 0 ELSE 1]

\* the command of one direction is handed to the cutter tool
IssueCommand(cutter, channel, connected) ==
    /\ cpc \in {"idle", "returned"}
    /\ channel \in ChannelsOf(cutter)
    /\ cpc' = "running"
    /\ ccutter' = cutter
    /\ cchannel' = channel
    /\ cconnected' = connected
    /\ cresult' = NoResult
    /\ cslept' = 0
    /\ cret' = NoValue
    /\ IF cutter = ccutter /\ channel = cchannel
       THEN crelay' = crelay
       ELSE crelay' \in BOOLEAN

\* channel.connect() / channel.disconnect(): _set_channel_connected_state
\* calls run_on_self with the command of the direction
CutterRun(cutter, channel, connected) ==
    /\ rpc \in {"none", "done"}
    /\ IssueCommand(cutter, channel, connected)
    /\ rpc' = "none"
    /\ rlog' = <<>>
    /\ UNCHANGED nonCutVars

\* run_on_self returns; the sleep, if any; return. A command that reported
\* status 0 has switched the relay; after any other result the relay is in
\* either position
CutterReturn(result) ==
    /\ cpc = "running"
    /\ result \in Results(ccutter)
    /\ cresult' = result
    /\ cslept' = SleepAfter(ccutter, cconnected, result)
    /\ cret' = ReturnValue(ccutter, result)
    /\ IF result = 0 THEN crelay' = cconnected ELSE crelay' \in {crelay, cconnected}
    /\ rlog' = IF rpc \in {"disconnect", "connect"}
               THEN Append(rlog, [connected |-> cconnected, result |-> result])
               ELSE rlog
    /\ cpc' = "returned"
    /\ UNCHANGED <<ccutter, cchannel, cconnected, rpc, nonCutVars>>

\* _reboot_device: self.channel.disconnect()
RebootDevice(cutter, channel) ==
    /\ rpc \in {"none", "done"}
    /\ IssueCommand(cutter, channel, FALSE)
    /\ rpc' = "disconnect"
    /\ rlog' = <<>>
    /\ UNCHANGED nonCutVars

\* a power cycle whose second command opens the relay again
RebootConnect_off ==
    /\ rpc = "disconnect"
    /\ cpc = "returned"
    /\ IssueCommand(ccutter, cchannel, FALSE)
    /\ rpc' = "connect"
    /\ UNCHANGED <<rlog, nonCutVars>>

\* _reboot_device: time.sleep(1), self.channel.connect(); the value that
\* disconnect() returned is not looked at
RebootConnect ==
    /\ rpc = "disconnect"
    /\ cpc = "returned"
    /\ IssueCommand(ccutter, cchannel, TRUE)
    /\ rpc' = "connect"
    /\ UNCHANGED <<rlog, nonCutVars>>

\* _reboot_device returns
RebootDone ==
    /\ rpc = "connect"
    /\ cpc = "returned"
    /\ rpc' = "done"
    /\ UNCHANGED <<cpc, ccutter, cchannel, cconnected, cresult, cslept, cret, crelay, rlog, nonCutVars>>

NextCut ==
    \/ \E cutter \in Cutters, channel \in 0..3, connected \in BOOLEAN :
          CutterRun(cutter, channel, connected)
    \/ \E result \in {NoResult, 0, 1} : CutterReturn(result)
    \/ \E cutter \in Cutters, channel \in 0..3 : RebootDevice(cutter, channel)
    \/ RebootConnect
    \/ RebootDone

SpecCut == Init /\ [][NextCut]_vars

\* ------------------------------------------- probing of the cutters
MaxUnits == 2

\* a version that clewarecontrol can report and the table does not hold
UNLISTED_VERSION == 7

\* cls._types of a cutter class
TypesOf(family) == IF family = "cleware" THEN ClewareTypes ELSE UsbrelayTypes

\* _get_type does not return None for the version
HasType(family, version) == \E t \in TypesOf(family) : t.version = version

\* the versions a unit can report: clewarecontrol -l prints the version of
\* the device, tools/list_cutters.py prints str(1) for every device
ReportedVersions(family) ==
    IF family = "cleware"
    THEN {t.version : t \in ClewareTypes} \cup {UNLISTED_VERSION}
    ELSE {1}

\* the lines of the list command: a device is a switch ("Switch1" is in its
\* line) or another Cleware device; list_cutters.py lists relays only
ReportedUnits(family) ==
    [switch : IF family = "cleware" THEN BOOLEAN ELSE {TRUE},
     version : ReportedVersions(family)]

ReportedLines(family) ==
    UNION {[1..n -> ReportedUnits(family)] : n \in 0..MaxUnits}

\* _probe_cutters up to its loop: the list command failed or printed
\* something unexpected (Usbrelay: printed nothing), return False;
\* otherwise cutters = []
ProbeCutters(family, listed, lines) ==
    /\ ppc = "idle"
    /\ lines \in ReportedLines(family)
    /\ pfamily' = family
    /\ plines' = lines
    /\ pidx' = 0
    /\ pcutters' = <<>>
    /\ pwarned' = {}
    /\ IF ~listed \/ (family = "usbrelay" /\ lines = <<>>)
       THEN ppc' = "failed"
       ELSE ppc' = "loop"
    /\ pret' = FALSE
    /\ UNCHANGED <<stype, sconnected, scmds, sret, nonProbeVars>>

\* a probe that keeps a cutter whose version has no type
ProbeLine_keep ==
    /\ ppc = "loop"
    /\ pidx < Len(plines)
    /\ pidx' = pidx + 1
    /\ LET unit == plines[pidx + 1]
           cutter == [version |-> unit.version, id |-> pidx + 1]
       IN  /\ pcutters' = IF unit.switch THEN Append(pcutters, cutter) ELSE pcutters
           /\ pwarned' = pwarned
    /\ UNCHANGED <<ppc, pfamily, plines, pret, stype, sconnected, scmds, sret, nonProbeVars>>

\* one turn of the loop of _probe_cutters. ClewareCutter: a line without
\* "Switch1" is passed over; a cutter whose cutter_type is None is warned
\* about and not appended. Usbrelay appends the cutter of every line
ProbeLine ==
    /\ ppc = "loop"
    /\ pidx < Len(plines)
    /\ pidx' = pidx + 1
    /\ LET unit == plines[pidx + 1]
           cutter == [version |-> unit.version, id |-> pidx + 1]
       IN  IF pfamily = "cleware"
           THEN IF ~unit.switch
                THEN UNCHANGED <<pcutters, pwarned>>
                ELSE IF ~HasType(pfamily, unit.version)
                     THEN /\ pwarned' = pwarned \cup {pidx + 1}
                          /\ pcutters' = pcutters
                     ELSE /\ pcutters' = Append(pcutters, cutter)
                          /\ pwarned' = pwarned
           ELSE /\ pcutters' = Append(pcutters, cutter)
                /\ pwarned' = pwarned
    /\ UNCHANGED <<ppc, pfamily, plines, pret, stype, sconnected, scmds, sret, nonProbeVars>>

\* cls._cutters = cutters; return True
ProbeDone ==
    /\ ppc = "loop"
    /\ pidx = Len(plines)
    /\ ppc' = "probed"
    /\ pret' = TRUE
    /\ UNCHANGED <<pfamily, plines, pidx, pcutters, pwarned, stype, sconnected, scmds, sret, nonProbeVars>>

\* the names of the cutter types, and one that no type has
TypeNames == {t.cutter_type : t \in ClewareTypes \cup UsbrelayTypes} \cup {"Other"}

\* cutter.cutter_type of a probed cutter
CutterTypeOf(family, cutter) == CHOOSE t \in TypesOf(family) : t.version = cutter.version

\* the probed cutters of the named type, by their place in cls._cutters
OfType(family, cutters, cutter_type) ==
    {i \in DOMAIN cutters : CutterTypeOf(family, cutters[i]).cutter_type = cutter_type}

\* the commands of _set_con_stat_all_chan_type: `return True` stands in the
\* body of the loop over the channels, so the method returns after the
\* command to the first channel of the first cutter of the type
SetCommands(family, cutters, cutter_type) ==
    LET hit == {i \in OfType(family, cutters, cutter_type) :
                    CutterTypeOf(family, cutters[i]).channels > 0}
    IN  IF hit = {} THEN {}
        ELSE LET first == CHOOSE i \in hit : \A j \in hit : i <= j
             IN  {<<cutters[first].id, 0>>}

\* connect_all_channels_of_type / disconnect_all_channels_of_type
SetConStatAllChanType(cutter_type, connected) ==
    /\ ppc \in {"probed", "set"}
    /\ stype' = cutter_type
    /\ sconnected' = connected
    /\ scmds' = SetCommands(pfamily, pcutters, cutter_type)
    /\ sret' = (SetCommands(pfamily, pcutters, cutter_type) # {})
    /\ ppc' = "set"
    /\ UNCHANGED <<pfamily, plines, pidx, pcutters, pwarned, pret, nonProbeVars>>

NextProbe ==
    \/ \E family \in {"cleware", "usbrelay"}, listed \in BOOLEAN :
          \E lines \in ReportedLines(family) : ProbeCutters(family, listed, lines)
    \/ ProbeLine
    \/ ProbeDone
    \/ \E cutter_type \in TypeNames, connected \in BOOLEAN :
          SetConStatAllChanType(cutter_type, connected)

SpecProbe == Init /\ [][NextProbe]_vars

\* ------------------------------------------- main
MaxOptions == 2

\* the options that main handles before a test run
AdminOptions ==
    {"configure", "check", "checkall", "blacklist", "unblacklist",
     "blacklist_print", "recover_edisons"}

OptionSets == {o \in SUBSET AdminOptions : Cardinality(o) <= MaxOptions}

\* parse_args(): what the command line can set
MainArgs ==
    [options : OptionSets, device : BOOLEAN, machine : BOOLEAN, file_name : BOOLEAN,
     record : BOOLEAN, noflash : BOOLEAN, notest : BOOLEAN, nopoweroff : BOOLEAN]

\* exit status of the interpreter after an exception left main
EXIT_UNCAUGHT == 1

Called(call, d) == Append(nlog, [call |-> call, dev |-> d])

\* main(): config.parse(), parse_args(), logging.basicConfig
MainStart(a) ==
    /\ npc = "idle"
    /\ nargs' = a
    /\ npc' = "try"
    /\ UNCHANGED <<ndevice, nlog, nfailed, nlogged, nexit, nbad, nonMainVars>>

\* return <status>
MainReturn(status) ==
    /\ npc' = "returned"
    /\ nexit' = status
    /\ UNCHANGED <<nfailed, nlogged>>

\* except: logging.error(...); raise. The exception leaves main and
\* sys.exit(main()) is not reached: the interpreter ends with its status for
\* an uncaught exception
MainExcept(call) ==
    /\ npc' = "raised"
    /\ nfailed' = call
    /\ nlogged' = TRUE
    /\ nexit' = EXIT_UNCAUGHT

\* if args.configure: build_topology(); return 0
MainConfigure(raises) ==
    /\ npc = "try"
    /\ "configure" \in nargs.options
    /\ nlog' = Called("build_topology", NoDevice)
    /\ IF raises THEN MainExcept("build_topology") ELSE MainReturn(0)
    /\ UNCHANGED <<nargs, ndevice, nbad, nonMainVars>>

\* if args.check: ... elif args.checkall: ...; 0 when the checks passed, else 1
MainCheck(passed, raises) ==
    /\ npc = "try"
    /\ "configure" \notin nargs.options
    /\ nargs.options \cap {"check", "checkall"} # {}
    /\ LET call == IF "check" \in nargs.options THEN "check" ELSE "check_all"
       IN  /\ nlog' = Called(call, NoDevice)
           /\ IF raises THEN MainExcept(call) ELSE MainReturn(IF passed THEN 0 ELSE 1)
    /\ UNCHANGED <<nargs, ndevice, nbad, nonMainVars>>

\* device_manager = DevicesManager(args)
MainManager(raises) ==
    /\ npc = "try"
    /\ nargs.options \cap {"configure", "check", "checkall"} = {}
    /\ nlog' = Called("DevicesManager", NoDevice)
    /\ IF raises
       THEN MainExcept("DevicesManager")
       ELSE /\ npc' = "manager"
            /\ UNCHANGED <<nfailed, nlogged, nexit>>
    /\ UNCHANGED <<nargs, ndevice, nbad, nonMainVars>>

\* if args.blacklist / if args.unblacklist: 1 without --device, else the
\* call and 0
MainBlacklist(raises) ==
    /\ npc = "manager"
    /\ nargs.options \cap {"blacklist", "unblacklist"} # {}
    /\ LET call == IF "blacklist" \in nargs.options
                   THEN "blacklist_device" ELSE "unblacklist_device"
       IN  IF ~nargs.device
           THEN /\ MainReturn(1)
                /\ nlog' = nlog
           ELSE /\ nlog' = Called(call, NoDevice)
                /\ IF raises THEN MainExcept(call) ELSE MainReturn(0)
    /\ UNCHANGED <<nargs, ndevice, nbad, nonMainVars>>

\* if args.blacklist_print / if args.recover_edisons
MainPrintOrRecover(raises) ==
    /\ npc = "manager"
    /\ nargs.options \cap {"blacklist", "unblacklist"} = {}
    /\ nargs.options \cap {"blacklist_print", "recover_edisons"} # {}
    /\ LET call == IF "blacklist_print" \in nargs.options
                   THEN "blacklist_print" ELSE "recover_edisons"
       IN  /\ nlog' = Called(call, NoDevice)
           /\ IF raises THEN MainExcept(call) ELSE MainReturn(0)
    /\ UNCHANGED <<nargs, ndevice, nbad, nonMainVars>>

\* if not args.machine or not args.file_name: return 1;
\* device = device_manager.reserve(); tester = Tester(device)
MainReserve(d, raises) ==
    /\ npc = "manager"
    /\ nargs.options = {}
    /\ IF ~nargs.machine \/ ~nargs.file_name
       THEN /\ MainReturn(1)
            /\ UNCHANGED <<nlog, ndevice>>
       ELSE /\ nlog' = Called("reserve", NoDevice)
            /\ IF raises
               THEN /\ MainExcept("reserve")
                    /\ ndevice' = ndevice
               ELSE /\ ndevice' = d
                    /\ npc' = "record"
                    /\ UNCHANGED <<nfailed, nlogged, nexit>>
    /\ UNCHANGED <<nargs, nbad, nonMainVars>>

\* if args.record: device.record_serial()
MainRecord(raises) ==
    /\ npc = "record"
    /\ IF nargs.record
       THEN /\ nlog' = Called("record_serial", ndevice)
            /\ IF raises
               THEN MainExcept("record_serial")
               ELSE /\ npc' = "flash"
                    /\ UNCHANGED <<nfailed, nlogged, nexit>>
       ELSE /\ npc' = "flash"
            /\ UNCHANGED <<nlog, nfailed, nlogged, nexit>>
    /\ UNCHANGED <<nargs, ndevice, nbad, nonMainVars>>

\* how write_image can end: it returns after an image written in full, it
\* raises, or it returns although a dfu-util transfer ended with a non-zero
\* status (EdisonDevice._dfu_call does not look at the status)
FlashOutcomes == {"ok", "raises", "unnoticed"}

\* a main that flashes whatever --noflash says
MainFlash_always(outcome) ==
    /\ npc = "flash"
    /\ IF TRUE
       THEN /\ nlog' = Called("write_image", ndevice)
            /\ IF outcome = "raises"
               THEN /\ MainExcept("write_image")
                    /\ nbad' = nbad
               ELSE /\ npc' = "test"
                    /\ nbad' = (outcome = "unnoticed")
                    /\ UNCHANGED <<nfailed, nlogged, nexit>>
       ELSE /\ npc' = "test"
            /\ UNCHANGED <<nlog, nfailed, nlogged, nexit, nbad>>
    /\ UNCHANGED <<nargs, ndevice, nonMainVars>>

\* if not args.noflash: device.write_image(args.file_name)
MainFlash(outcome) ==
    /\ npc = "flash"
    /\ IF ~nargs.noflash
       THEN /\ nlog' = Called("write_image", ndevice)
            /\ IF outcome = "raises"
               THEN /\ MainExcept("write_image")
                    /\ nbad' = nbad
               ELSE /\ npc' = "test"
                    /\ nbad' = (outcome = "unnoticed")
                    /\ UNCHANGED <<nfailed, nlogged, nexit>>
       ELSE /\ npc' = "test"
            /\ UNCHANGED <<nlog, nfailed, nlogged, nexit, nbad>>
    /\ UNCHANGED <<nargs, ndevice, nonMainVars>>

\* if not args.notest: tester.execute()
MainTest(raises) ==
    /\ npc = "test"
    /\ IF ~nargs.notest
       THEN /\ nlog' = Called("execute", ndevice)
            /\ IF raises
               THEN MainExcept("execute")
               ELSE /\ npc' = "poweroff"
                    /\ UNCHANGED <<nfailed, nlogged, nexit>>
       ELSE /\ npc' = "poweroff"
            /\ UNCHANGED <<nlog, nfailed, nlogged, nexit>>
    /\ UNCHANGED <<nargs, ndevice, nbad, nonMainVars>>

\* if not args.nopoweroff: device.detach()
MainDetach(raises) ==
    /\ npc = "poweroff"
    /\ IF ~nargs.nopoweroff
       THEN /\ nlog' = Called("detach", ndevice)
            /\ IF raises
               THEN MainExcept("detach")
               ELSE /\ npc' = "end"
                    /\ UNCHANGED <<nfailed, nlogged, nexit>>
       ELSE /\ npc' = "end"
            /\ UNCHANGED <<nlog, nfailed, nlogged, nexit>>
    /\ UNCHANGED <<nargs, ndevice, nbad, nonMainVars>>

\* return 0
MainEnd ==
    /\ npc = "end"
    /\ MainReturn(0)
    /\ UNCHANGED <<nargs, ndevice, nlog, nbad, nonMainVars>>

NextMain ==
    \/ \E a \in MainArgs : MainStart(a)
    \/ \E raises \in BOOLEAN : MainConfigure(raises)
    \/ \E passed, raises \in BOOLEAN : MainCheck(passed, raises)
    \/ \E raises \in BOOLEAN : MainManager(raises)
    \/ \E raises \in BOOLEAN : MainBlacklist(raises)
    \/ \E raises \in BOOLEAN : MainPrintOrRecover(raises)
    \/ \E d \in Devices, raises \in BOOLEAN : MainReserve(d, raises)
    \/ \E raises \in BOOLEAN : MainRecord(raises)
    \/ \E outcome \in FlashOutcomes : MainFlash(outcome)
    \/ \E raises \in BOOLEAN : MainTest(raises)
    \/ \E raises \in BOOLEAN : MainDetach(raises)
    \/ MainEnd

SpecMain == Init /\ [][NextMain]_vars

\* ------------------------------------------- local_execute
\* the return codes of a command: killed by a signal, success, failures
ReturnCodes == {-9, 0, 1, 2, 32}

\* ignore_return_codes: None (the default) or a list of codes
IgnoreLists ==
    {NoIgnore} \cup {[given |-> TRUE, codes |-> c] : c \in SUBSET {0, 1, 32}}

\* what the command wrote, in order, to stdout ("o") and stderr ("e")
Writes == UNION {[1..n -> {"o", "e"}] : n \in 0..2}

\* stdout = PIPE, stderr = STDOUT: both streams go into the one pipe, and
\* communicate() gives (what the pipe held, None)
Communicate(writes) == [stdout |-> writes, stderr |-> <<>>]

\* a local_execute that takes every return code for ignored when a list is given
LocalExecuteResult_all(return_code, ignore_return_codes, writes) ==
    LET output == Communicate(writes)
        ignored == IF ~ignore_return_codes.given THEN {} ELSE ReturnCodes
    IN  IF return_code \in ignored \/ return_code = 0
        THEN [kind |-> "returned", error |-> "", returncode |-> return_code,
              value |-> output.stdout]
        ELSE [kind |-> "raised", error |-> "CalledProcessError",
              returncode |-> return_code, value |-> <<>>]

\* local_execute after process.wait(timeout) gave the return code
LocalExecuteResult(return_code, ignore_return_codes, writes) ==
    LET output == Communicate(writes)
        ignored == IF ~ignore_return_codes.given THEN {} ELSE ignore_return_codes.codes
    IN  IF return_code \in ignored \/ return_code = 0
        THEN [kind |-> "returned", error |-> "", returncode |-> return_code,
              value |-> output.stdout]
        ELSE [kind |-> "raised", error |-> "CalledProcessError",
              returncode |-> return_code, value |-> <<>>]

\* local_execute(command, timeout, ignore_return_codes): Popen
LocalExecute(ignore_return_codes) ==
    /\ xpc = "idle"
    /\ xignore' = ignore_return_codes
    /\ xpc' = "wait"
    /\ UNCHANGED <<xwrites, xres, nonExecVars>>

\* the command ends within the timeout: wait, communicate, return or raise
LocalExecuteEnds(return_code, writes) ==
    /\ xpc = "wait"
    /\ xres' = LocalExecuteResult(return_code, xignore, writes)
    /\ xwrites' = writes
    /\ xpc' = "done"
    /\ UNCHANGED <<xignore, nonExecVars>>

\* the command does not end within the timeout: process.wait(timeout) raises
LocalExecuteTimeout ==
    /\ xpc = "wait"
    /\ xres' = [kind |-> "raised", error |-> "TimeoutExpired", returncode |-> 0, value |-> <<>>]
    /\ xpc' = "timeout"
    /\ UNCHANGED <<xignore, xwrites, nonExecVars>>

NextExec ==
    \/ \E ignore_return_codes \in IgnoreLists : LocalExecute(ignore_return_codes)
    \/ \E return_code \in ReturnCodes, writes \in Writes : LocalExecuteEnds(return_code, writes)
    \/ LocalExecuteTimeout

SpecExec == Init /\ [][NextExec]_vars

\* ------------------------------------------- EdisonDevice image preparation
MaxMounts == 2

\* what _add_usb_networking writes below the mount directory, in program order
UsbSteps ==
    <<"copy usb-network.service", "chown usb-network.service",
      "symlink multi-user.target.wants", "makedirs etc/conf.d",
      "write etc/conf.d/usb-network", "rewrite connman.service">>

\* what _add_ssh_key writes below the mount directory, in program order
KeySteps ==
    <<"makedirs home/root/.ssh", "copy authorized_keys",
      "chown .ssh", "chown authorized_keys",
      "chmod .ssh", "chmod authorized_keys">>

ErrOs == "OSError"
ErrExit == "SystemExit: 1"
ErrIo == "IOError"

\* write_image(file_name) is called
EdisonWriteImage ==
    /\ ipc \in {"idle", "returned", "raised", "exited"}
    /\ imounts < MaxMounts
    /\ ipc' = "mount"
    /\ istep' = 0
    /\ iown' = FALSE
    /\ ifiles' = {}
    /\ isynced' = FALSE
    /\ iflash' = NoFlash
    /\ ierr' = ""
    /\ UNCHANGED <<imounts, nonImageVars>>

\* _mount_local: _make_directory, which lets an OSError pass, and mount,
\* whose CalledProcessError goes to _log_subprocess32_error: sys.exit(1)
MountLocal(outcome) ==
    /\ ipc = "mount"
    /\ CASE outcome = "ok" ->
              /\ imounts' = imounts + 1
              /\ iown' = TRUE
              /\ ipc' = "usb"
              /\ istep' = 1
              /\ UNCHANGED ierr
         [] outcome = "oserror" ->
              /\ ipc' = "raised"
              /\ ierr' = ErrOs
              /\ UNCHANGED <<imounts, iown, istep>>
         [] OTHER ->
              /\ ipc' = "exited"
              /\ ierr' = ErrExit
              /\ UNCHANGED <<imounts, iown, istep>>
    /\ UNCHANGED <<ifiles, isynced, iflash, nonImageVars>>

\* one step of _add_usb_networking: it is done, or it raises and nothing
\* catches the error, or the symlink exists already (errno 17), which is
\* logged and passed over
AddUsbNetworking(outcome) ==
    /\ ipc = "usb"
    /\ outcome = "exists" => UsbSteps[istep] = "symlink multi-user.target.wants"
    /\ IF outcome = "raise"
       THEN /\ ipc' = "raised"
            /\ ierr' = ErrOs
            /\ UNCHANGED <<istep, ifiles>>
       ELSE /\ ifiles' = IF outcome = "ok"
                         THEN ifiles \cup {[file |-> UsbSteps[istep], mounted |-> iown]}
                         ELSE ifiles
            /\ IF istep < Len(UsbSteps)
               THEN ipc' = "usb" /\ istep' = istep + 1
               ELSE ipc' = "key" /\ istep' = 1
            /\ UNCHANGED ierr
    /\ UNCHANGED <<imounts, iown, isynced, iflash, nonImageVars>>

\* one step of _add_ssh_key: it is done, or it raises
AddSshKey(ok) ==
    /\ ipc = "key"
    /\ IF ok
       THEN /\ ifiles' = ifiles \cup {[file |-> KeySteps[istep], mounted |-> iown]}
            /\ IF istep < Len(KeySteps)
               THEN ipc' = "key" /\ istep' = istep + 1
               ELSE ipc' = "unmount" /\ istep' = 0
            /\ UNCHANGED ierr
       ELSE /\ ipc' = "raised"
            /\ ierr' = ErrOs
            /\ UNCHANGED <<istep, ifiles>>
    /\ UNCHANGED <<imounts, iown, isynced, iflash, nonImageVars>>

\* _unmount_local: sync, then umount; the CalledProcessError of either
\* goes to _log_subprocess32_error: sys.exit(1)
UnmountLocal(outcome) ==
    /\ ipc = "unmount"
    /\ CASE outcome = "ok" ->
              /\ isynced' = TRUE
              /\ imounts' = imounts - 1
              /\ iown' = FALSE
              /\ ipc' = "flash"
              /\ UNCHANGED ierr
         [] outcome = "sync failed" ->
              /\ ipc' = "exited"
              /\ ierr' = ErrExit
              /\ UNCHANGED <<isynced, imounts, iown>>
         [] OTHER ->
              /\ isynced' = TRUE
              /\ ipc' = "exited"
              /\ ierr' = ErrExit
              /\ UNCHANGED <<imounts, iown>>
    /\ UNCHANGED <<istep, ifiles, iflash, nonImageVars>>

\* return self._flash_image(): the DFU sequence returns True or raises IOError
EdisonFlashImage(ok) ==
    /\ ipc = "flash"
    /\ iflash' = [started |-> TRUE, mounted |-> iown, synced |-> isynced]
    /\ ipc' = IF ok THEN "returned" ELSE "raised"
    /\ ierr' = IF ok THEN "" ELSE ErrIo
    /\ UNCHANGED <<istep, imounts, iown, ifiles, isynced, nonImageVars>>

NextImage ==
    \/ EdisonWriteImage
    \/ \E outcome \in {"ok", "oserror", "failed"} : MountLocal(outcome)
    \/ \E outcome \in {"ok", "exists", "raise"} : AddUsbNetworking(outcome)
    \/ \E ok \in BOOLEAN : AddSshKey(ok)
    \/ \E outcome \in {"ok", "sync failed", "umount failed"} : UnmountLocal(outcome)
    \/ \E ok \in BOOLEAN : EdisonFlashImage(ok)

SpecImage == Init /\ [][NextImage]_vars

\* ------------------------------------------- serial recorder
MaxRead == 3
MaxChunk == 2

NL == "\n"
ESC == "\\x1b"
\* what the "[" + str(time_now) + "] " after a newline is written as
STAMP == "[time] "

\* characters the serial line delivers
Chars == {"a", NL, ESC, "[", "m"}

\* what one serial_stream.read(4096) with its timeout can return
Chunks == UNION {[1..n -> Chars] : n \in 0..MaxChunk}

\* s.rfind(c) + 1: the position of the last c in s, 0 when there is none
RFind(s, c) ==
    IF \E i \in 1..Len(s) : s[i] = c
    THEN CHOOSE i \in 1..Len(s) : s[i] = c /\ \A j \in (i+1)..Len(s) : s[j] # c
    ELSE 0

\* s[start:stop] of Python for start >= 0, where a negative stop counts
\* from the end
PySlice(s, start, stop) ==
    LET hi == IF stop < 0 THEN Len(s) + stop ELSE IF stop > Len(s) THEN Len(s) ELSE stop
    IN IF start >= hi THEN <<>> ELSE SubSeq(s, start + 1, hi)

\* re.sub of the escape pattern with '': over Chars the pattern matches
\* ESC "[" and one "m" after it when there is one
RECURSIVE Sub(_)
Sub(text) ==
    IF text = <<>> THEN <<>>
    ELSE IF Len(text) >= 2 /\ text[1] = ESC /\ text[2] = "["
         THEN IF Len(text) >= 3 /\ text[3] = "m"
              THEN Sub(SubSeq(text, 4, Len(text)))
              ELSE Sub(SubSeq(text, 3, Len(text)))
         ELSE <<text[1]>> \o Sub(Tail(text))

\* text_batch.replace("\n", "\n[" + str(time_now) + "] ")
RECURSIVE Replace(_)
Replace(text) ==
    IF text = <<>> THEN <<>>
    ELSE (IF text[1] = NL THEN <<NL, STAMP>> ELSE <<text[1]>>) \o Replace(Tail(text))

\* main: record(serial_stream, output_file)
Record ==
    /\ qpc \in {"idle", "returned", "raised"}
    /\ qpc' = "loop"
    /\ stream' = <<>>
    /\ read_buffer' = <<>>
    /\ output_file' = <<>>
    /\ UNCHANGED <<TERMINATE_FLAG, nonRecVars>>

\* one turn of the loop of record with what the read returned
ReadChunk(chunk) ==
    /\ qpc = "loop"
    /\ Len(stream) + Len(chunk) <= MaxRead
    /\ stream' = stream \o chunk
    /\ LET buffer == read_buffer \o chunk
           last_newline == RFind(buffer, NL) - 1
           text_batch == PySlice(buffer, 0, last_newline + 1)
       IN IF last_newline = -1 /\ ~TERMINATE_FLAG
          THEN /\ read_buffer' = buffer
               /\ UNCHANGED <<output_file, qpc>>
          ELSE /\ read_buffer' = PySlice(buffer, last_newline + 1, -1)
               /\ output_file' = output_file \o Replace(Sub(text_batch))
               /\ qpc' = IF TERMINATE_FLAG THEN "returned" ELSE "loop"
    /\ UNCHANGED <<TERMINATE_FLAG, nonRecVars>>

\* SIGTERM or SIGINT: the interpreter calls signal_handler(signum, frame),
\* which takes no arguments: TypeError is raised in the loop before the
\* handler has set TERMINATE_FLAG
SignalHandler ==
    /\ qpc = "loop"
    /\ qpc' = "raised"
    /\ UNCHANGED <<stream, read_buffer, output_file, TERMINATE_FLAG, nonRecVars>>

NextRecord ==
    \/ Record
    \/ \E chunk \in Chunks : ReadChunk(chunk)
    \/ SignalHandler

SpecRecord == Init /\ [][NextRecord]_vars

\* ------------------------------------------------------------ properties
DeadPc == {"idle"} \cup Terminal
LiveOn(d) == {l \in leases : l.dev = d /\ l.holder # NoProc}

\* C1: at most one live lease per device id in every reachable state, under
\* any interleaving of reserve() and release() of independent processes
C1_OneLiveLeasePerDevice ==
    \A d \in Devices : Cardinality(LiveOn(d)) <= 1

\* two reserve() calls compete for one device: one holds it, the other one is
\* inside the critical section and found nothing
C1_Witness ==
    \E p, q \in Procs :
        /\ p # q
        /\ pc[p] = "reserved"
        /\ pc[q] = "critical"
        /\ args[q].device = device[p]
        /\ ModelOf(device[p]) = args[q].machine
        /\ view[q] = {}

StaleOn(d) == \E l \in leases : l.dev = d /\ l.holder = NoProc

Reclaims(p, d) ==
    (/\ pc[p] = "reserve" /\ Matches(d, args[p])
     /\ StaleOn(d) /\ LiveOn(d) = {} /\ d \notin blacklist)
    ~> (\/ pc[p] \in {"reserved", "crashed"}
        \/ d \in blacklist
        \/ LiveOn(d) # {})

\* C3: the lease of a dead holder is reclaimed: a process that waits in
\* reserve() for a matching device whose only marker is stale is eventually
\* granted a device, unless it crashes, the device is blacklisted or another
\* reserve() takes the device first (stated for process 1; the processes
\* are interchangeable)
C3_StaleLeaseReclaimed == \A d \in Devices : Reclaims(1, d)

\* a reserve() has read as available a device whose marker was left behind
\* by a crashed holder
C3_Witness ==
    \E p, q \in Procs : \E d \in Devices :
        /\ pc[p] = "crashed"
        /\ pc[q] = "critical"
        /\ d \in view[q]
        /\ StaleOn(d)

HolderOf(d) == {l.holder : l \in LiveOn(d)}

C5_Release ==
    [][\A p \in Procs : \A d \in Devices :
          (pc[p] = "detached" /\ pc'[p] = "released" /\ d = device[p]) =>
              /\ HolderOf(d) = {p}
              /\ \A l \in leases' : l.dev # d
              /\ Availability(d)' = (IF d \in blacklist THEN "BLACKLISTED" ELSE "FREE")
              /\ {l \in leases' : l.dev # d} = {l \in leases : l.dev # d}
              /\ \A e \in Devices \ {d} : Availability(e)' = Availability(e)]_vars

\* the device released by p, who is still running, is held by q
C5_Witness ==
    \E p, q \in Procs :
        /\ pc[p] = "released"
        /\ pc[q] = "reserved"
        /\ device[q] = device[p]

\* C6: a device unblacklisted after a process was started is in the
\* availability that this process reads in reserve(), if it is free
C6_UnblacklistedEligible ==
    [][\A p \in Procs : \A d \in Devices :
          (/\ pc[p] = "reserve" /\ pc'[p] = "critical"
           /\ d \in startBl[p]
           /\ d \notin blacklist
           /\ LiveOn(d) = {}) => d \in view'[p]]_vars

\* a process that was started while the device was blacklisted has read it
\* as available
C6_Witness ==
    \E p \in Procs : pc[p] = "critical" /\ view[p] \cap startBl[p] # {}

C8_FailedReserveLeavesPool ==
    [][\A p \in Procs :
          (pc[p] = "critical" /\ view[p] = {}) =>
              /\ pc'[p] \in {"critical", "reserve", "raised", "crashed"}
              /\ (pc'[p] \in {"reserve", "raised"} =>
                    (leases' = leases /\ blacklist' = blacklist /\ device' = device))]_vars

\* pool {1 leased, 2 blacklisted}: the second reserve() has failed
C8_Witness ==
    \E p, q \in Procs :
        /\ pc[p] = "raised"
        /\ pc[q] = "reserved"
        /\ device[q] = 1
        /\ leases = {[dev |-> 1, holder |-> q]}
        /\ blacklist = {2}

\* C9 as stated: whenever mode entry ends with an error, RETRY_ATTEMPTS
\* attempts have been carried through (power-cycle, injection, IP poll)
C9_Original ==
    (InEnterMode /\ mpc = "raised") =>
        /\ count.power_cycles = retry_attempts
        /\ count.injections = retry_attempts
        /\ count.ip_polls = retry_attempts

\* C9: when _enter_mode raises its own "Could not set the device in mode"
\* error, exactly RETRY_ATTEMPTS attempts were made, each with a power-cycle,
\* an injection and an IP poll, and each failed for lack of an address or in
\* the verification; an error of the injection leaves the running attempt
C9_RaisesAfterAllAttempts ==
    /\ (mpc = "raised" /\ raised = ErrMode) =>
          /\ attempt = retry_attempts
          /\ count.power_cycles = retry_attempts
          /\ count.injections = retry_attempts
          /\ count.ip_polls = retry_attempts
          /\ count.warnings + count.verifies = retry_attempts
    /\ (InEnterMode /\ mpc = "raised" /\ raised # ErrMode) =>
          /\ count.power_cycles = attempt
          /\ count.ip_polls = attempt - 1

\* mode entry gave up after attempts without an address and attempts whose
\* verification failed
C9_Witness ==
    /\ mpc = "raised"
    /\ raised = ErrMode
    /\ count.warnings > 0
    /\ count.verifies > 0

\* C10 as stated: after an injection that was terminated at its timeout, mode
\* entry ends in an error only when no attempt remains
C10_Original ==
    (InEnterMode /\ mpc = "raised" /\ child = "terminated") => attempt = retry_attempts

\* C10: an injection that does not return is terminated at the timeout; when
\* the injection tries of the call have all timed out, AFTDeviceError
\* ("Failed to connect to PEM") leaves mode entry at once: the controller
\* does not go on to the IP poll or to another attempt
C10_TimeoutAbortsModeEntry ==
    /\ mpc \notin {"pem_join", "terminated"} => child # "running"
    /\ (InEnterMode /\ child = "terminated") =>
          \/ mpc \in {"pem_start", "interrupted", "terminated"}
          \/ (mpc = "raised" /\ raised = ErrPem /\ pem_i = PEM_ATTEMPTS)
    /\ (mpc = "raised" /\ raised = ErrPem) =>
          /\ child = "terminated"
          /\ count.power_cycles = attempt
          /\ count.ip_polls = attempt - 1

\* the injection of the second attempt hung, was terminated, and mode entry
\* has ended with two attempts left
C10_Witness ==
    /\ mpc = "raised"
    /\ raised = ErrPem
    /\ child = "terminated"
    /\ attempt = 2
    /\ attempt < RETRY_ATTEMPTS

\* C11: a hang of the injection tool cannot hang the controller: a call of
\* _send_PEM_keystrokes makes at most `attempts` joins, every join that
\* timed out with the child still alive terminates that child, and no child
\* is left running when the call has returned or raised
C11_InjectionBounded ==
    [][/\ joins' <= attempts'
       /\ pem_i' <= attempts'
       /\ (mpc = "pem_join" /\ mpc' \notin {"pem_join", "interrupted", "terminated"}) =>
             /\ joins' = joins + 1
             /\ child = "running"
             /\ child' \in {"exited", "terminated"}
             /\ (pem_i' = pem_i + 1) <=> (child' = "terminated")
       /\ mpc' \notin {"pem_join", "terminated"} => child' # "running"
       /\ (mpc = "pem_start" /\ pem_i = attempts) =>
             mpc' \in {"pem_start", "raised", "returned", "interrupted", "terminated"}]_vars

\* check_poweron: both injection attempts hung, both children were
\* terminated, and the call has raised after its second join
C11_Witness ==
    /\ ~InEnterMode
    /\ mpc = "raised"
    /\ raised = ErrConfig
    /\ attempts = CHECK_ATTEMPTS
    /\ joins = CHECK_ATTEMPTS
    /\ pem_i = CHECK_ATTEMPTS
    /\ child = "terminated"

\* C12: when the mode verifies on attempt k <= RETRY_ATTEMPTS, _enter_mode
\* returns at once: k power-cycles and k injections were made, no more
C12_ReturnsOnVerify ==
    /\ verified => mpc = "returned"
    /\ (InEnterMode /\ mpc = "returned") =>
          /\ verified
          /\ attempt \in 1..RETRY_ATTEMPTS
          /\ count.power_cycles = attempt
          /\ count.injections = attempt
          /\ count.ip_polls = attempt
          /\ count.verifies + count.warnings = attempt

\* the mode verified on the second attempt, with attempts left
C12_Witness ==
    /\ InEnterMode
    /\ mpc = "returned"
    /\ verified
    /\ attempt = 2
    /\ attempt < RETRY_ATTEMPTS
    /\ count.power_cycles = 2

\* C13: every attempt of _enter_mode starts with a power-cycle and runs
\* power-cycle, injection, IP poll, verification in this order; the
\* verification runs on an address obtained in the same attempt
C13_AttemptOrder ==
    InEnterMode =>
        /\ mpc \in {"pem_start", "pem_join", "wait_ip", "verify"} =>
              /\ attempt \in 1..RETRY_ATTEMPTS
              /\ count.power_cycles = attempt
        /\ (mpc = "pem_start" /\ pem_i = 0) => count.injections = attempt - 1
        /\ mpc \in {"pem_join", "wait_ip", "verify"} => count.injections = attempt
        /\ mpc \in {"pem_start", "pem_join", "wait_ip"} =>
              /\ count.ip_polls = attempt - 1
              /\ count.verifies + count.warnings = attempt - 1
        /\ mpc = "wait_ip" => child = "exited"
        /\ mpc = "verify" =>
              /\ count.ip_polls = attempt
              /\ count.verifies + count.warnings = attempt - 1
              /\ dev_ip # NoIp
              /\ ip_at = attempt
        /\ mpc = "loop" =>
              /\ count.power_cycles = attempt
              /\ count.injections = attempt
              /\ count.ip_polls = attempt
              /\ count.verifies + count.warnings = attempt

\* the third attempt verifies the address it obtained itself, after an
\* attempt whose verification failed and an attempt without an address
C13_Witness ==
    /\ InEnterMode
    /\ mpc = "verify"
    /\ attempt = 3
    /\ ip_at = 3
    /\ count.verifies = 1
    /\ count.warnings = 1

\* C14: a DFU transfer that does not end within the timeout is killed, the
\* device is rebooted and the stage is tried again; after 4 such attempts of
\* one stage _dfu_call raises, and no later stage is started
C14_DfuStageGivesUp ==
    [][/\ (dpc = "transfer" /\ dpc' = "loop") =>
             /\ dexec' = "killed"
             /\ dattempt' = dattempt + 1
             /\ dcount'.kills = dcount.kills + 1
             /\ dcount'.reboots = dcount.reboots + 1
             /\ dstage' = dstage
       /\ (dpc = "loop" /\ dattempt < DFU_ATTEMPTS /\ dpc' # "loop") =>
             (dpc' = "wait" /\ dstage' = dstage)
       /\ dattempt' <= DFU_ATTEMPTS
       /\ dcount'.starts <= DFU_ATTEMPTS
       /\ (dpc' = "raised" /\ derr' = ErrFlash) =>
             /\ dattempt' = DFU_ATTEMPTS
             /\ dcount' = [starts |-> DFU_ATTEMPTS, kills |-> DFU_ATTEMPTS, reboots |-> DFU_ATTEMPTS]
             /\ dexec' = "killed"
       /\ dpc = "raised" =>
             \/ (dpc' = "raised" /\ dlog' = dlog /\ dstage' = dstage)
             \/ (dpc' = "loop" /\ dstage' = 1 /\ dlog' = <<>>)]_vars

\* the transfer of the third stage timed out four times and the flash was
\* given up with seventeen stages not started
C14_Witness ==
    /\ dpc = "raised"
    /\ derr = ErrFlash
    /\ dstage = 3
    /\ dlog = SubSeq(DfuStages, 1, 3)
    /\ dcount.kills = DFU_ATTEMPTS

\* C15: a stage whose transfer times out j < 4 times and then ends is tried
\* exactly j+1 times, with j kills and j reboots in between, and the flasher
\* goes on to the next stage
C15_RetriesThenNextStage ==
    [][/\ dpc' \in {"between", "between302", "wait302"} =>
             /\ dattempt' < DFU_ATTEMPTS
             /\ dcount'.starts = dattempt' + 1
             /\ dcount'.kills = dattempt'
             /\ dcount'.reboots = dattempt'
             /\ dexec' = "exited"
       /\ (dpc \in {"between", "between302"} /\ dpc' \notin {"between", "between302", "wait302"}) =>
             IF dstage < NumStages
             THEN dpc' = "loop" /\ dstage' = dstage + 1 /\ dattempt' = 0
             ELSE dpc' = "done"]_vars

\* the third stage has ended in its third attempt, after two timeouts
C15_Witness ==
    /\ dpc = "between"
    /\ dstage = 3
    /\ dattempt = 2
    /\ dcount = [starts |-> 3, kills |-> 2, reboots |-> 2]

\* C16: a stage counts as flashed only when its transfer ended with exit
\* status 0: after a transfer that ended non-zero the flasher neither goes
\* on to the next stage nor reports the flash as complete
C16_NonZeroTransferStops ==
    /\ dpc \in {"between", "between302", "wait302"} => dstatus = 0
    /\ dpc = "done" => dbad = 0

\* C18: the alt settings are flashed in the order of the stage list, a stage
\* is started only when the one before it has returned, and every transfer
\* is started after a _wait_for_device that saw the device in DFU mode
C18_DfuStageOrder ==
    /\ Len(dlog) <= NumStages
    /\ dlog = SubSeq(DfuStages, 1, Len(dlog))
    /\ dpc \in {"popen", "transfer"} => dsaw
    /\ (dpc \in {"loop", "wait", "popen"} /\ dattempt = 0) => Len(dlog) = dstage - 1
    /\ (dpc \in {"loop", "wait", "popen"} /\ dattempt > 0) => Len(dlog) = dstage
    /\ dpc \in {"transfer", "between", "wait302", "between302"} => Len(dlog) = dstage
    /\ dpc = "done" => dlog = DfuStages

\* the root partition, the last stage, is transferred in a second attempt,
\* after every other stage and after the device was seen in DFU mode
C18_Witness ==
    /\ dpc = "transfer"
    /\ dstage = NumStages
    /\ DfuStages[dstage] = "rootfs"
    /\ dattempt = 1
    /\ dsaw
    /\ dlog = DfuStages

Issued(cmd) == {i \in 1..Len(flog) : flog[i].cmd = cmd}
Aborted(i) == i = Len(flog) /\ fpc = "raised"

\* C17 as stated: every remote command of the sequence that returns a
\* non-zero status is the last one issued and its error leaves write_image
C17_Original ==
    \A i \in 1..Len(flog) : flog[i].status # 0 => Aborted(i)

\* C17: a remote command that returns a non-zero status is the last one
\* issued and its error leaves write_image, except status 32 of the mount of
\* the image store and status 1 of the mkdir of the .ssh directory, after
\* which the sequence goes on
C17_NonZeroAbortsUnlessIgnored ==
    /\ \A i \in 1..Len(flog) :
          flog[i].status # 0 =>
              \/ Aborted(i)
              \/ <<flog[i].cmd, flog[i].status>> \in
                     {<<"mount img_nfs", 32>>, <<"mkdir .ssh", 1>>}
    /\ \A i \in 1..Len(flog) :
          <<flog[i].cmd, flog[i].status>> \in
              {<<"mount img_nfs", 32>>, <<"mkdir .ssh", 1>>} => ~Aborted(i)
    /\ fpc = "done" => Len(flog) = Len(FlashCommands(fhdd))
    /\ fpc = "raised" => flog[Len(flog)].status # 0

\* the key was being appended when the command returned a non-zero status:
\* write_image raised, after a passed-over status 32 of the first mount
C17_Witness ==
    /\ fpc = "raised"
    /\ flog[Len(flog)].cmd = "cat authorized_keys >>"
    /\ flog[1].status = 32
    /\ Len(flog) < Len(FlashCommands(fhdd))

\* command a is issued only after command b has returned
After(a, b) ==
    \A i \in Issued(a) : \E j \in Issued(b) : j < i /\ ~Raises(b, flog[j].status)

\* C19: the remote commands run in the order mount of the image store, copy
\* of the image, partprobe, udevadm trigger, udevadm settle, mount of the
\* written root filesystem, append of the public key, chmod of the key
\* file; no mount of the root filesystem is issued before the settle that
\* follows the copy has returned
C19_FlashOrder ==
    /\ After("bmaptool copy", "mount img_nfs")
    /\ After("partprobe", "bmaptool copy")
    /\ After("udevadm trigger", "partprobe")
    /\ After("udevadm settle", "udevadm trigger")
    /\ \A m \in {"mount root_partition", "mount super_root", "mount rootfs"} :
          After(m, "udevadm settle")
    /\ After("mount rootfs", "mount super_root")
    /\ After("cat authorized_keys >>", IF fhdd THEN "mount rootfs" ELSE "mount root_partition")
    /\ After("chmod 600 authorized_keys", "cat authorized_keys >>")
    /\ \A i \in 1..Len(flog) : Cardinality(Issued(flog[i].cmd) \ Issued("sync")) <= 1
    /\ fpc = "done" =>
          \A c \in {"mount img_nfs", "bmaptool copy", "partprobe", "udevadm trigger",
                    "udevadm settle", "cat authorized_keys >>", "chmod 600 authorized_keys"} :
              Issued(c) # {}

\* a two-layer image: the second layer of the root filesystem is mounted,
\* after the settle that followed the copy
C19_Witness ==
    /\ fpc = "running"
    /\ fhdd
    /\ flog # <<>>
    /\ flog[Len(flog)].cmd = "mount rootfs"
    /\ Issued("udevadm settle") # {}

\* C20: when connect() or disconnect() returns, the call has blocked, after
\* the hardware command, for the settle time of the cutter type for that
\* direction, in every relay family
C20_SettleAfterCommand ==
    cpc = "returned" =>
        /\ cslept > 0
        /\ ccutter.family = "cleware" => cslept = Transient(ccutter, cconnected)

IsFailureValue(v) == (v.kind = "bool" /\ v.value = 0) \/ (v.kind = "result" /\ v.value # 0)
IsSuccessValue(v) == (v.kind = "bool" /\ v.value = 1) \/ (v.kind = "result" /\ v.value = 0)

\* C21: when the relay command reports a non-zero status, connect() or
\* disconnect() returns a value that tells the failure and raises nothing;
\* a zero status is returned as success
C21_FailureIsReturned ==
    /\ cpc \in {"idle", "running", "returned"}
    /\ cpc = "returned" =>
          /\ cresult \notin {0, NoResult} => IsFailureValue(cret)
          /\ cresult = 0 => IsSuccessValue(cret)
          /\ cret # NoValue

\* a disconnect() on a Usbrelay channel whose tool ended with status 1 has
\* returned False
C21_Witness ==
    /\ cpc = "returned"
    /\ ccutter.family = "usbrelay"
    /\ ~cconnected
    /\ cresult = 1
    /\ cret = [kind |-> "bool", value |-> 0]

\* C22: a power cycle issues the disconnect command before the connect
\* command, and when both commands succeeded the channel is connected,
\* whatever its power state was before
C22_PowerCycleRoundTrip ==
    /\ rpc = "done" =>
          /\ Len(rlog) = 2
          /\ ~rlog[1].connected
          /\ rlog[2].connected
          /\ (rlog[1].result = 0 /\ rlog[2].result = 0) => crelay
    /\ (rpc = "connect" /\ cpc = "running") =>
          /\ cconnected
          /\ Len(rlog) = 1
          /\ ~rlog[1].connected
    /\ (rpc = "disconnect" /\ cpc = "running") => (~cconnected /\ rlog = <<>>)

\* a power cycle of channel 3 of a four-channel Cleware cutter has ended
\* with both commands successful
C22_Witness ==
    /\ rpc = "done"
    /\ ccutter.family = "cleware"
    /\ cchannel = 3
    /\ rlog = <<[connected |-> FALSE, result |-> 0], [connected |-> TRUE, result |-> 0]>>
    /\ crelay

\* lines of the probe that the loop has looked at and that name a cutter
SeenCutterLines == {i \in 1..pidx : plines[i].switch}

KeptIds == {pcutters[k].id : k \in DOMAIN pcutters}

\* C23: a unit whose reported version is in no entry of the type table is
\* logged and left out of the cutters, every other unit is kept, and the
\* probe goes on to its end and returns True
C23_UnknownVersionSkipped ==
    /\ ppc \in {"loop", "probed", "set"} =>
          /\ \A i \in SeenCutterLines :
                IF HasType(pfamily, plines[i].version)
                THEN i \in KeptIds /\ i \notin pwarned
                ELSE i \notin KeptIds /\ i \in pwarned
          /\ KeptIds \subseteq SeenCutterLines
    /\ ppc \in {"probed", "set"} => (pret /\ pidx = Len(plines))
    /\ ppc = "failed" => (pidx = 0 /\ ~pret)

\* a probe has ended that met a unit of an unlisted version first and kept
\* the recognised unit after it
C23_Witness ==
    /\ ppc = "probed"
    /\ pfamily = "cleware"
    /\ Len(plines) = 2
    /\ plines[1] = [switch |-> TRUE, version |-> UNLISTED_VERSION]
    /\ plines[2] = [switch |-> TRUE, version |-> 29]
    /\ pwarned = {1}
    /\ pcutters = <<[version |-> 29, id |-> 2]>>
    /\ pret

\* C27: connect_all_channels_of_type / disconnect_all_channels_of_type issue
\* the command to every channel of every probed cutter of the named type and
\* return True; with no cutter of the type they issue nothing and return
\* False
C27_AllChannelsOfTypeSet ==
    ppc = "set" =>
        LET of_type == OfType(pfamily, pcutters, stype)
        IN  /\ sret = (of_type # {})
            /\ scmds = UNION {{<<pcutters[i].id, ch>> :
                                  ch \in 0..(CutterTypeOf(pfamily, pcutters[i]).channels - 1)} :
                              i \in of_type}

\* the hardware operations of main (flashing, mode entry, power toggling)
\* are in flight on the device that p reserved
Operating(p) == pc[p] = "reserved"

\* C24: no two processes have hardware operations in flight against the
\* same device, and a process operates only the device whose lease it holds
C24_OneOperatorPerDevice ==
    /\ \A p, q \in Procs :
          (p # q /\ Operating(p) /\ Operating(q)) => device[p] # device[q]
    /\ \A p \in Procs :
          Operating(p) =>
              /\ device[p] \in Devices
              /\ [dev |-> device[p], holder |-> p] \in leases

\* one process operates device 1 while another one, that asked for the same
\* device, waits in reserve() for it
C24_Witness ==
    \E p, q \in Procs :
        /\ p # q
        /\ Operating(p)
        /\ device[p] = 1
        /\ pc[q] = "reserve"
        /\ args[q].device = 1

CallNames == {nlog[i].call : i \in DOMAIN nlog}

\* the stages that the arguments ask of a test run
WantedStages ==
    (IF nargs.noflash THEN {} ELSE {"write_image"})
        \cup (IF nargs.notest THEN {} ELSE {"execute"})
        \cup (IF nargs.nopoweroff THEN {} ELSE {"detach"})

\* C25: an exception of any call of main is logged by main and leaves it,
\* and the invocation ends with a non-zero status; main ends with status 0
\* only when every stage it was asked for was run and ended without an
\* error, a failed transfer of the image included
C25_ErrorsReachTopLevel ==
    /\ nfailed # "" =>
          /\ npc = "raised"
          /\ nlogged
          /\ nexit # 0
          /\ nexit # NoExit
          /\ nlog[Len(nlog)].call = nfailed
    /\ (npc = "returned" /\ nexit = 0) => (nfailed = "" /\ ~nbad)
    /\ (npc = "returned" /\ nexit = 0 /\ nargs.options = {}) =>
          /\ WantedStages \subseteq CallNames
          /\ "reserve" \in CallNames

\* C25 without the transfers that fail unnoticed: what holds of main itself
C25_RaisedErrorsReachTopLevel ==
    /\ nfailed # "" =>
          /\ npc = "raised"
          /\ nlogged
          /\ nexit = EXIT_UNCAUGHT
          /\ nlog[Len(nlog)].call = nfailed
    /\ (npc = "returned" /\ nexit = 0) => nfailed = ""
    /\ (npc = "returned" /\ nexit = 0 /\ nargs.options = {}) =>
          /\ WantedStages \subseteq CallNames
          /\ "reserve" \in CallNames

DeviceCalls == {"record_serial", "write_image", "execute", "detach"}

StageOrder(call) ==
    CASE call = "record_serial" -> 1
      [] call = "write_image" -> 2
      [] call = "execute" -> 3
      [] call = "detach" -> 4
      [] OTHER -> 0

\* C26: write_image, execute and detach are called on the device that a
\* successful reserve() returned, in this order, each one left out exactly
\* when its --no... flag is set; without machine or image, or with an
\* administrative option, main reserves nothing and calls nothing on a
\* device
C26_StagesOnReservedDevice ==
    /\ \A i \in DOMAIN nlog :
          nlog[i].call \in DeviceCalls =>
              /\ nlog[i].dev = ndevice
              /\ ndevice \in Devices
              /\ \E j \in 1..(i - 1) : nlog[j].call = "reserve"
              /\ nfailed # "reserve"
              /\ \A j \in 1..(i - 1) :
                    nlog[j].call \in DeviceCalls =>
                        StageOrder(nlog[j].call) < StageOrder(nlog[i].call)
    /\ "write_image" \in CallNames => ~nargs.noflash
    /\ "execute" \in CallNames => ~nargs.notest
    /\ "detach" \in CallNames => ~nargs.nopoweroff
    /\ (npc \in {"test", "poweroff", "end"} /\ ~nargs.noflash) => "write_image" \in CallNames
    /\ (npc \in {"poweroff", "end"} /\ ~nargs.notest) => "execute" \in CallNames
    /\ (npc = "end" /\ ~nargs.nopoweroff) => "detach" \in CallNames
    /\ (npc # "idle" /\ (~nargs.machine \/ ~nargs.file_name
                         \/ nargs.options \cap {"blacklist", "unblacklist", "blacklist_print"} # {})) =>
          /\ "reserve" \notin CallNames
          /\ CallNames \cap DeviceCalls = {}
          /\ ndevice = NoDevice

\* a test run with --noflash has run the test and the power-off on the
\* device it reserved and returned 0
C26_Witness ==
    /\ npc = "returned"
    /\ nexit = 0
    /\ nargs.noflash
    /\ ndevice = 2
    /\ nlog = <<[call |-> "DevicesManager", dev |-> NoDevice],
                [call |-> "reserve", dev |-> NoDevice],
                [call |-> "execute", dev |-> 2],
                [call |-> "detach", dev |-> 2]>>

\* C28: local_execute returns the output of the command when the return
\* code is 0 or in ignore_return_codes, and raises a subprocess error for
\* every other return code; no output is returned for a non-zero code that
\* is not ignored
C28_LocalExecute ==
    /\ xpc = "done" =>
          IF xres.returncode = 0 \/ (xignore.given /\ xres.returncode \in xignore.codes)
          THEN xres.kind = "returned" /\ xres.error = "" /\ xres.value = xwrites
          ELSE /\ xres.kind = "raised"
               /\ xres.error = "CalledProcessError"
               /\ xres.value = <<>>
    /\ xpc = "timeout" => (xres.kind = "raised" /\ xres.value = <<>>)
    /\ xpc \in {"idle", "wait"} => xres = NoExec

\* a command that wrote to stderr and to stdout and ended with the ignored
\* code 32: both writes are returned, in their order
C28_Witness ==
    /\ xpc = "done"
    /\ xignore = [given |-> TRUE, codes |-> {32}]
    /\ xwrites = <<"e", "o">>
    /\ xres = [kind |-> "returned", error |-> "", returncode |-> 32, value |-> <<"e", "o">>]

\* C29: every attempt of mode entry that failed, for lack of a responsive
\* address or in the verification of the mode, has logged a warning: at
\* the head of the loop there are as many warnings as attempts made
C29_FailedAttemptWarns ==
    (InEnterMode /\ mpc = "loop") => count.warnings = attempt

\* C30: a device that _wait_for_device does not see in DFU mode is waited
\* for again within the attempts of the stage: the flasher gives up for
\* lack of a DFU device only when the attempts of the stage are used up
C30_NoDfuDeviceRetried ==
    (dpc = "raised" /\ derr = ErrNoDfu) => dattempt = DFU_ATTEMPTS

\* C31: write_image sends the commands of flashing and key installation
\* only after _enter_mode returned in the same call, to the address that
\* this mode entry verified in service mode; when _enter_mode raised,
\* nothing was sent and the exception leaves write_image
C31_FlashOnlyInServiceMode ==
    caller = "write_image" =>
        /\ flash_ip # NoIp =>
              /\ mpc = "returned"
              /\ mode = "service"
              /\ verified
              /\ flash_ip = dev_ip
              /\ ip_at = attempt
              /\ opc \in {"returned", "raised"}
        /\ mpc = "raised" =>
              /\ flash_ip = NoIp
              /\ opc \in {"running", "raised"}
              /\ opc = "raised" => oerr = raised
        /\ opc = "returned" => flash_ip # NoIp
        /\ opc = "running" => flash_ip = NoIp

\* write_image has ended with the error of a mode entry whose last attempt
\* had an address that did not verify: nothing was sent to that address
C31_Witness ==
    /\ caller = "write_image"
    /\ opc = "raised"
    /\ oerr = ErrMode
    /\ dev_ip # NoIp
    /\ flash_ip = NoIp

\* C32: _send_PEM_keystrokes starts at most `attempts` children, one after
\* the other; it returns when a child finished within the timeout, raises
\* at once what a child reported, goes on to the next attempt after a child
\* it had to terminate, and raises AFTDeviceError (AFTConfigurationError out
\* of check_poweron) only when `attempts` children were terminated
C32_SendPemKeystrokes ==
    [][/\ (mpc = "pem_start" /\ mpc' = "pem_join") =>
             /\ pem_i < attempts
             /\ joins = pem_i
             /\ child # "running"
             /\ child' = "running"
       /\ (mpc = "pem_join" /\ child' = "exited") =>
             /\ pem_i' = pem_i
             /\ \/ mpc' \in {"wait_ip", "returned"} /\ raised' = raised
                \/ mpc' = "raised" /\ raised' = ErrChild
                \/ mpc' = "raised" /\ raised' = ErrStillOn /\ caller = "check_poweroff"
       /\ (mpc = "pem_join" /\ mpc' = "pem_start") =>
             /\ child' = "terminated"
             /\ pem_i' = pem_i + 1
             /\ joins' = pem_i'
       /\ (mpc = "pem_start" /\ mpc' = "raised") =>
             /\ raised' \in {ErrPem, ErrConfig}
             /\ pem_i = attempts
             /\ joins = attempts
             /\ child = "terminated"]_vars

\* check_poweron: the first child was terminated at the timeout, the second
\* one finished, and the call has returned
C32_Witness ==
    /\ caller = "check_poweron"
    /\ mpc = "returned"
    /\ attempts = CHECK_ATTEMPTS
    /\ pem_i = 1
    /\ joins = 2
    /\ child = "exited"

C35_NoStaleAddress ==
    [][/\ (mpc = "wait_ip" /\ mpc' = "loop") => dev_ip' = NoIp
       /\ (mpc = "wait_ip" /\ mpc' = "verify") => (dev_ip' # NoIp /\ ip_at' = attempt)
       /\ (mpc = "verify" /\ mpc' = "returned") =>
             /\ dev_ip # NoIp
             /\ dev_ip' = dev_ip
             /\ ip_at = attempt
             /\ verified'
       /\ (mpc = "verify" /\ mpc' = "loop") => dev_ip' = dev_ip]_vars

\* the first attempt acquired an address that did not verify, the second
\* attempt acquired none: self.dev_ip is None
C35_Witness ==
    /\ InEnterMode
    /\ mpc = "loop"
    /\ attempt = 2
    /\ count.verifies = 1
    /\ count.warnings = 1
    /\ ip_at = 2
    /\ dev_ip = NoIp

\* C36: check_connection sets the attempt budget of the object to 3, and
\* nothing sets it back: every later mode entry gives up after 3 attempts
C36_LoweredBudgetStays ==
    [][/\ (caller' = "check_connection" /\ opc' = "running") =>
             retry_attempts' = CHECK_RETRY_ATTEMPTS
       /\ retry_attempts = CHECK_RETRY_ATTEMPTS => retry_attempts' = CHECK_RETRY_ATTEMPTS
       /\ retry_attempts' \in {RETRY_ATTEMPTS, CHECK_RETRY_ATTEMPTS}
       /\ (mpc = "loop" /\ mpc' = "raised") => attempt = retry_attempts
       /\ (mpc = "loop" /\ mpc' = "pem_start") => attempt < retry_attempts]_vars

\* a write_image after a check_connection has given up after 3 attempts
C36_Witness ==
    /\ caller = "write_image"
    /\ retry_attempts = CHECK_RETRY_ATTEMPTS
    /\ mpc = "raised"
    /\ raised = ErrMode
    /\ attempt = CHECK_RETRY_ATTEMPTS
    /\ count.power_cycles = CHECK_RETRY_ATTEMPTS

\* C37: within one _dfu_call the device has been rebooted as many times as
\* attempts have timed out: the timeout of an attempt, the last one before
\* the IOError included, adds one reboot, and an attempt whose transfer
\* ended within the timeout adds none
C37_RebootPerTimeout ==
    [][/\ dcount'.reboots = dattempt'
       /\ dcount'.reboots = dcount'.kills
       /\ (dpc = "transfer" /\ dexec' = "killed") =>
             /\ dcount'.reboots = dcount.reboots + 1
             /\ dpc' = "loop"
       /\ (dpc = "transfer" /\ dexec' = "exited") =>
             /\ dcount'.reboots = dcount.reboots
             /\ dcount'.reboots = dcount'.starts - 1
             /\ dpc' = "between"
       /\ (dpc = "loop" /\ dpc' = "raised") =>
             /\ dcount.reboots = DFU_ATTEMPTS
             /\ dcount'.reboots = DFU_ATTEMPTS
             /\ dcount'.starts = DFU_ATTEMPTS
       /\ dpc \notin {"transfer", "between", "between302", "idle", "done", "raised"} =>
             dcount'.reboots = dcount.reboots]_vars

\* the first stage timed out in all its attempts: the device was rebooted
\* after each of them, and the IOError has been raised
C37_Witness ==
    /\ dpc = "raised"
    /\ derr = ErrFlash
    /\ dstage = 1
    /\ dexec = "killed"
    /\ dcount.reboots = DFU_ATTEMPTS
    /\ dcount.starts = DFU_ATTEMPTS

\* C38: write_image injects the USB-networking service and the ssh key
\* only while the root image is mounted, starts the DFU sequence only after
\* the image was synced and unmounted, and leaves no mount behind however
\* it ends
C38_MountNeverLeft ==
    /\ \A w \in ifiles : w.mounted
    /\ iflash.started => (iflash.synced /\ ~iflash.mounted)
    /\ ipc \in {"returned", "raised", "exited"} => ~iown

\* the filesystems that the successful mount commands of the log have
\* mounted on the target and no later umount has taken away
MountedOnTarget ==
    LET Done(cmd, from) == \E k \in from..Len(flog) : flog[k].cmd = cmd /\ flog[k].status = 0
    IN {pt \in {"super_root", "root"} :
          \E k \in 1..Len(flog) :
             /\ flog[k].status = 0
             /\ \/ pt = "super_root" /\ flog[k].cmd = "mount super_root"
                \/ pt = "root" /\ flog[k].cmd \in {"mount rootfs", "mount root_partition"}
             /\ ~Done("umount " \o pt, k)}

\* C39: when _install_tester_public_key has returned, nothing that it
\* mounted on the target is still mounted, for the single-layer and for the
\* two-layer image
C39_KeyInstallUnmountsAll ==
    fpc = "done" => MountedOnTarget = {}

\* output without the time stamps
RECURSIVE Unstamped(_)
Unstamped(text) ==
    IF text = <<>> THEN <<>>
    ELSE (IF text[1] = STAMP THEN <<>> ELSE <<text[1]>>) \o Unstamped(Tail(text))

\* C40: what record has written, without the time stamps, followed by what
\* it holds in read_buffer, is what it has read without the escape
\* sequences, and before termination is asked for it has written whole
\* lines only
C40_NoInputLost ==
    qpc \in {"loop", "returned", "raised"} =>
        /\ Unstamped(output_file) \o Sub(read_buffer) = Sub(stream)
        /\ ~TERMINATE_FLAG =>
              \/ output_file = <<>>
              \/ Len(output_file) >= 2 /\ SubSeq(output_file, Len(output_file) - 1, Len(output_file)) = <<NL, STAMP>>

====
